---------------------------- MODULE Spec2Model ----------------------------
(***************************************************************************)
(* A model of the kmol preprocessing core: the chunked parallel            *)
(* preprocessing pipeline (src/src/kmol/data/preprocessor.py), the cache   *)
(* manager and the object factory (src/lib/core/helpers.py).               *)
(*                                                                         *)
(* The module holds several specifications over one set of variables.      *)
(* Each specification moves its own group of variables and keeps the       *)
(* other groups at their idle value:                                       *)
(*   SpecChunks   AbstractPreprocessor._get_chunks as a pure function      *)
(*   SpecKey      CacheManager._sort / CacheManager.key                    *)
(*   SpecCache    CacheManager.has/load/save/delete and the cached         *)
(*                operation built on them                                  *)
(*   Spec         _run_parrallel: coordinator, worker tasks, merge         *)
(*   SpecAug      _load_augmented_data of the online and cached strategy   *)
(*   SpecFactory  SuperFactory.find_descendants / SuperFactory.create      *)
(*   SpecFiles    FilePreprocessor._load_dataset, run after run            *)
(*   SpecRace     processes running cached operations on one directory     *)
(*   SpecDelete   CacheManager.delete on any cache directory               *)
(*   SpecChain    preprocess and reverse_transformers on one sample        *)
(*   SpecResume   FilePreprocessor runs with serialization failures        *)
(*   SpecLive     the pipeline with workers and coordinator scheduled      *)
(*   SpecCached   the cached strategy: load, augment, merge                *)
(*   SpecDescendants  SuperFactory.find_descendants on its own             *)
(*   SpecLoad     CachePreprocessor._load_dataset, run after run           *)
(***************************************************************************)
EXTENDS Integers, Sequences, FiniteSets, TLC

VARIABLES
    \* ---- chunking and the parallel pipeline
    dataset_len,    \* len(dataset) handed to _run_parrallel / _get_chunks
    n_jobs,         \* config.featurization_jobs
    chunks,         \* what _get_chunks returned, or NotRun
    outcome,        \* sample index -> what preprocess(sample) does on it
    use_disk,       \* CachePreprocessor._use_disk
    co_pc,          \* where the coordinator is in _run_parrallel
    futures,        \* one worker task per chunk, in submission order
    progress,       \* the manager dict: task id -> [progress, total]
    n_finished,     \* the coordinator's count of done futures
    first_done,     \* the task whose future completed first (0: none yet)
    merged,         \* the dataset _run_parrallel returns
    \* ---- CacheManager.key
    key_params,     \* the two parameter maps handed to CacheManager.key
    key_digests,    \* the two digests, or <<>> before key has run
    \* ---- the cache directory and the cached operations run on it
    store,          \* cache_location: file name (digest) -> file content
    calls,          \* the cached operations run so far, oldest first
    \* ---- static augmentation
    aug_mode,       \* "online" (OnlinePreprocessor) or "cache" (CachePreprocessor)
    dataset_size,   \* self.dataset_size, set by _load_dataset
    aug_datasets,   \* [a.aug_dataset for a in self._static_augmentations]
    aug_pc,         \* "start", or "done" once _load_augmented_data returned
    aug_merged,     \* what _add_static_aug_dataset returned, or NotMerged
    fd_call,        \* one call of find_descendants: parent and result, or <<>>
    \* ---- SuperFactory
    parent_of,      \* the loaded classes: class -> its base class
    fa_request,     \* the arguments of SuperFactory.create
    fa_result,      \* what create returned or raised, or NotCalled
    fa_after,       \* the caller's dynamic_parameters after the call, or NotCalled
    \* ---- FilePreprocessor
    fp_loader,      \* the samples of the loader: filename inputs and outcome
    fp_overwrite,   \* self.overwrite of the run in progress
    fp_files,       \* the feature folder: filename -> file content
    fp_run,         \* the number of the _load_dataset run in progress (0: none)
    fp_n,           \* the loop index n of the run in progress
    fp_log,         \* what each loop iteration did, oldest first
    \* ---- processes running a cached operation on one cache directory
    ce_procs,       \* process -> its call: arguments, position, outcome
    \* ---- one direct call of CacheManager.delete
    del_call,       \* the call: its key and the directory before it, or <<>>
    \* ---- the transform chain on one sample
    ch_featurizers, \* self._featurizers, in declared order
    ch_transformers,\* self._transformers, in declared order
    ch_sample,      \* the sample: the stage operations it has been through
    ch_pc,          \* "raw", "preprocessed" or "reversed"
    \* ---- CachePreprocessor._load_dataset, run after run
    ld_runs         \* the runs so far: configuration, digest, what happened

chunkVars == <<dataset_len, n_jobs, chunks>>
pipeVars == <<outcome, use_disk, co_pc, futures, progress, n_finished, first_done, merged>>
keyVars == <<key_params, key_digests>>
cacheVars == <<store, calls>>
augVars == <<aug_mode, dataset_size, aug_datasets, aug_pc>>
factoryVars == <<parent_of, fa_request, fa_result, fa_after>>
fileVars == <<fp_loader, fp_overwrite, fp_files, fp_run, fp_n, fp_log>>
raceVars == <<ce_procs>>
deleteVars == <<del_call>>
chainVars == <<ch_featurizers, ch_transformers, ch_sample, ch_pc>>
loadVars == <<ld_runs>>
mergeVars == <<aug_merged>>
descVars == <<fd_call>>
tailVars == <<loadVars, mergeVars, descVars>>
restVars == <<fileVars, raceVars, deleteVars, chainVars, tailVars>>
coreVars == <<chunkVars, pipeVars, keyVars, cacheVars, augVars, factoryVars>>
vars == <<dataset_len, n_jobs, chunks, outcome, use_disk, co_pc, futures, progress,
          n_finished, first_done, merged, key_params, key_digests, store, calls,
          aug_mode, dataset_size, aug_datasets, aug_pc, parent_of, fa_request, fa_result, fa_after,
          fp_loader, fp_overwrite, fp_files, fp_run, fp_n, fp_log, ce_procs,
          del_call, ch_featurizers, ch_transformers, ch_sample, ch_pc, ld_runs,
          aug_merged, fd_call>>

\* ------------------------------------------------------------------ bounds

MaxChunkLen == 9
MaxChunkJobs == 6
MaxListLen == 1     \* longest list inside a parameter map
MaxCalls == 3       \* cached operations run in one behaviour
MaxSamples == 3     \* largest dataset the pipeline runs on
MaxJobs == 2        \* largest featurization_jobs the pipeline runs with
MaxBase == 2        \* largest base dataset_size of an augmentation run
MaxStages == 2      \* most static augmentation stages
MaxAugLen == 2      \* most synthetic samples of one stage

\* ------------------------------------------------------------- idle values

NotRun == [error |-> "not_run", chunks |-> <<>>]
NoFiles == <<>>     \* the empty cache directory

IdleChunks == dataset_len = 0 /\ n_jobs = 1 /\ chunks = NotRun
IdlePipe ==
    /\ outcome = <<>> /\ use_disk = FALSE /\ co_pc = "idle" /\ futures = <<>>
    /\ progress = <<>> /\ n_finished = 0 /\ first_done = 0 /\ merged = <<>>
IdleKey == key_params = <<>> /\ key_digests = <<>>
IdleCache == store = NoFiles /\ calls = <<>>
IdleAug == aug_mode = "idle" /\ dataset_size = 0 /\ aug_datasets = <<>> /\ aug_pc = "idle"
IdleFactory ==
    parent_of = <<>> /\ fa_request = <<>> /\ fa_result = <<>> /\ fa_after = <<>>
IdleFiles ==
    /\ fp_loader = <<>> /\ fp_overwrite = FALSE /\ fp_files = <<>>
    /\ fp_run = 0 /\ fp_n = 0 /\ fp_log = <<>>
IdleRace == ce_procs = <<>>
IdleDelete == del_call = <<>>
IdleChain ==
    ch_featurizers = <<>> /\ ch_transformers = <<>> /\ ch_sample = <<>> /\ ch_pc = "idle"
IdleLoad == ld_runs = <<>>
NotMerged == [merged |-> FALSE, form |-> "", samples |-> <<>>]
IdleMerge == aug_merged = NotMerged
IdleDesc == fd_call = <<>>
IdleTail == IdleLoad /\ IdleMerge /\ IdleDesc
IdleRest == IdleFiles /\ IdleRace /\ IdleDelete /\ IdleChain /\ IdleTail
IdleCore == IdleChunks /\ IdlePipe /\ IdleKey /\ IdleCache /\ IdleAug /\ IdleFactory

\* ----------------------------------------------------------------- helpers

Min(a, b) == IF a < b THEN a ELSE b

\* Python's seq[lo:hi] for 0 <= lo <= hi: the bounds are clamped to the length.
Slice(seq, lo, hi) == SubSeq(seq, Min(lo, Len(seq)) + 1, Min(hi, Len(seq)))

\* list(range(0, n))
RangeList(n) == [k \in 1..n |-> k - 1]

\* ---------------------------------------------------------------- chunking

\* AbstractPreprocessor._get_chunks: chunk_size = len // n_jobs; one slice of
\* range_list per i in range((len + chunk_size - 1) // chunk_size). Both
\* divisions are by chunk_size or n_jobs; a zero chunk_size makes the second
\* one raise ZeroDivisionError.
_get_chunks(len, jobs) ==
    LET chunk_size == len \div jobs
        range_list == RangeList(len)
    IN  IF chunk_size = 0
        THEN [error |-> "ZeroDivisionError", chunks |-> <<>>]
        ELSE LET count == (len + chunk_size - 1) \div chunk_size
             IN  [error |-> "none",
                  chunks |-> [n \in 1..count |->
                                Slice(range_list, (n - 1) * chunk_size, n * chunk_size)]]

InitChunks ==
    /\ dataset_len \in 0..MaxChunkLen
    /\ n_jobs \in 1..MaxChunkJobs
    /\ chunks = NotRun
    /\ IdlePipe /\ IdleKey /\ IdleCache /\ IdleAug /\ IdleFactory /\ IdleRest

GetChunks ==
    /\ chunks = NotRun
    /\ chunks' = _get_chunks(dataset_len, n_jobs)
    /\ UNCHANGED <<dataset_len, n_jobs, pipeVars, keyVars, cacheVars, augVars, factoryVars, restVars>>

NextChunks == GetChunks

SpecChunks == InitChunks /\ [][NextChunks]_vars

\* How many (chunk, position) pairs hold index idx.
Occurrences(cs, idx) ==
    Cardinality({p \in {<<c, k>> : c \in 1..Len(cs), k \in 1..MaxChunkLen + 1} :
                    /\ p[2] <= Len(cs[p[1]])
                    /\ cs[p[1]][p[2]] = idx})

\* A chunk is a contiguous index range.
Contiguous(chunk) == \A k \in 1..Len(chunk) - 1 : chunk[k + 1] = chunk[k] + 1

\* C1: for every dataset size S >= 1 and worker count W >= 1, _get_chunks
\* returns without error and its chunks hold every index of [0, S) exactly once.
C1_PartitionComplete ==
    (chunks # NotRun /\ dataset_len >= 1 /\ n_jobs >= 1) =>
        /\ chunks.error = "none"
        /\ \A idx \in 0..dataset_len - 1 : Occurrences(chunks.chunks, idx) = 1

\* C2: whenever _get_chunks returns, the number of chunks equals the configured
\* worker count and every chunk is a contiguous index range (the last chunk
\* takes the remainder, no extra chunk).
C2_ChunkCountIsJobs ==
    (chunks # NotRun /\ chunks.error = "none") =>
        /\ Len(chunks.chunks) = n_jobs
        /\ \A c \in 1..Len(chunks.chunks) : Contiguous(chunks.chunks[c])

\* ------------------------------------------------------- CacheManager.key

\* JSON-like values. A string is the sequence of its characters. A dict keeps
\* its items in insertion order, as a Python dict does: a sequence of [k, val]
\* items with distinct keys.
Atom(a) == [t |-> "atom", v |-> a, items |-> <<>>]
Dict(items) == [t |-> "dict", v |-> <<>>, items |-> items]
List(items) == [t |-> "list", v |-> <<>>, items |-> items]
Item(k, val) == [k |-> k, val |-> val]

Keys == {"a", "b"}
Atoms == {<<"x">>}

\* Python's order on the key strings.
KeyRank(k) ==
    CASE k = "a" -> 1
      [] k = "b" -> 2
      [] k = "featurizers" -> 3
      [] k = "input_path" -> 4
      [] k = "last_modified" -> 5
      [] k = "loader" -> 6
      [] k = "transformers" -> 7
      [] k = "type" -> 8
      [] OTHER -> 9
KeyLess(j, k) == KeyRank(j) < KeyRank(k)

\* sorted(items): the items by ascending key (keys of one dict are distinct).
RECURSIVE Sorted(_)
Sorted(items) ==
    IF items = <<>> THEN <<>>
    ELSE LET least == CHOOSE i \in 1..Len(items) :
                          \A j \in 1..Len(items) : j # i => KeyLess(items[i].k, items[j].k)
             rest == [n \in 1..Len(items) - 1 |->
                          IF n < least THEN items[n] ELSE items[n + 1]]
         IN  <<items[least]>> \o Sorted(rest)

\* CacheManager._sort: every value that is itself a dict is replaced by its
\* sorted form (type(value) is dict: a list is left as it is, whatever it
\* holds), then the items are sorted by key.
RECURSIVE _sort(_)
_sort(dictionary) ==
    Dict(Sorted([n \in 1..Len(dictionary.items) |->
                    LET it == dictionary.items[n]
                    IN  IF it.val.t = "dict" THEN Item(it.k, _sort(it.val)) ELSE it]))

\* json.dumps: the text as a sequence of tokens, dict items and list elements
\* in the order the value holds them.
RECURSIVE Dumps(_)
RECURSIVE DumpsItems(_, _)
DumpsItems(items, isDict) ==
    IF items = <<>> THEN <<>>
    ELSE LET h == Head(items)
             one == IF isDict THEN <<"\"", h.k, "\"", ":">> \o Dumps(h.val) ELSE Dumps(h)
         IN  IF Len(items) = 1 THEN one
             ELSE one \o <<",">> \o DumpsItems(Tail(items), isDict)
Dumps(value) ==
    CASE value.t = "atom" -> <<"\"">> \o value.v \o <<"\"">>
      [] value.t = "dict" -> <<"{">> \o DumpsItems(value.items, TRUE) \o <<"}">>
      [] value.t = "list" -> <<"[">> \o DumpsItems(value.items, FALSE) \o <<"]">>

\* hashlib.md5(...).hexdigest(), idealised as collision free: the digest is
\* determined by, and determines, the hashed text.
Md5(text) == [md5 |-> text]

\* CacheManager.key(**kwargs)
key_constant(kwargs) == Md5(<<>>)
key(kwargs) == Md5(Dumps(_sort(kwargs)))

\* All sequences over S of length 0..n.
SeqsUpTo(S, n) == UNION {[1..m -> S] : m \in 0..n}

\* The dicts whose values come from V: every order of every subset of Keys.
KeySeqs == {ks \in SeqsUpTo(Keys, Cardinality(Keys)) :
                \A i, j \in 1..Len(ks) : i # j => ks[i] # ks[j]}
DictsOver(V) ==
    UNION {{Dict([n \in 1..Len(ks) |-> Item(ks[n], f[n])]) : f \in [1..Len(ks) -> V]} :
              ks \in KeySeqs}

AtomValues == {Atom(a) : a \in Atoms}
FlatDicts == DictsOver(AtomValues)
Lists == {List(s) : s \in SeqsUpTo(AtomValues \cup FlatDicts, MaxListLen)}
\* Parameter maps: a dict of atoms, dicts, and lists of atoms and dicts (the
\* pipeline passes its featurizer and transformer specs as lists of dicts).
ParamMaps == DictsOver(AtomValues \cup FlatDicts \cup Lists)

\* a and b are the same value up to the order of dict items, at any depth.
RECURSIVE SameUpToKeyOrder(_, _)
SameUpToKeyOrder(a, b) ==
    /\ a.t = b.t
    /\ CASE a.t = "atom" -> a.v = b.v
         [] a.t = "list" ->
              /\ Len(a.items) = Len(b.items)
              /\ \A n \in 1..Len(a.items) : SameUpToKeyOrder(a.items[n], b.items[n])
         [] a.t = "dict" ->
              /\ Len(a.items) = Len(b.items)
              /\ \A n \in 1..Len(a.items) : \E m \in 1..Len(b.items) :
                    /\ a.items[n].k = b.items[m].k
                    /\ SameUpToKeyOrder(a.items[n].val, b.items[m].val)

\* Every value that differs from the given one only in the order of dict items.
RECURSIVE Reorderings(_)
RECURSIVE ReorderingsSeq(_, _)
ReorderingsSeq(items, isDict) ==
    IF items = <<>> THEN {<<>>}
    ELSE {<<h>> \o t :
            h \in IF isDict
                  THEN {Item(Head(items).k, w) : w \in Reorderings(Head(items).val)}
                  ELSE Reorderings(Head(items)),
            t \in ReorderingsSeq(Tail(items), isDict)}
Reorderings(value) ==
    CASE value.t = "atom" -> {value}
      [] value.t = "list" -> {List(s) : s \in ReorderingsSeq(value.items, FALSE)}
      [] value.t = "dict" ->
           {Dict([n \in 1..Len(s) |-> s[p[n]]]) :
               s \in ReorderingsSeq(value.items, TRUE),
               p \in Permutations(1..Len(value.items))}

InitKey ==
    /\ \E a \in ParamMaps : \E b \in Reorderings(a) : key_params = <<a, b>>
    /\ key_digests = <<>>
    /\ IdleChunks /\ IdlePipe /\ IdleCache /\ IdleAug /\ IdleFactory /\ IdleRest

\* key(A) and key(B) are computed.
ComputeKeys ==
    /\ key_digests = <<>>
    /\ key_digests' = <<key(key_params[1]), key(key_params[2])>>
    /\ UNCHANGED <<key_params, chunkVars, pipeVars, cacheVars, augVars, factoryVars, restVars>>

NextKey == ComputeKeys

SpecKey == InitKey /\ [][NextKey]_vars

\* C3: parameter maps that differ only in the order of map keys, at any
\* nesting depth and also inside lists, have the same key.
C3_KeyOrderIndependent ==
    (key_digests # <<>> /\ SameUpToKeyOrder(key_params[1], key_params[2])) =>
        key_digests[1] = key_digests[2]

\* Does a value hold a dict inside a list?
RECURSIVE DictInList(_, _)
DictInList(value, inList) ==
    CASE value.t = "atom" -> FALSE
      [] value.t = "list" -> \E n \in 1..Len(value.items) : DictInList(value.items[n], TRUE)
      [] value.t = "dict" ->
           \/ inList /\ Len(value.items) > 1
           \/ \E n \in 1..Len(value.items) : DictInList(value.items[n].val, inList)

\* The part of C3 the code keeps: without a multi-key dict inside a list the
\* key does not depend on the key order.
KeyOrderIndependentOutsideLists ==
    (key_digests # <<>> /\ ~DictInList(key_params[1], FALSE)) =>
        key_digests[1] = key_digests[2]

\* ------------------------------------------------------ the cache directory

\* torch.save writes the pickled value, torch.load reads it back.
Pickle(data) == [pickled |-> data]
Unpickle(blob) == blob.pickled

\* CacheManager.has: os.path.isfile(cache_location/key)
has_never(st, k) == FALSE
has(st, k) == k \in DOMAIN st

\* CacheManager.load: torch.load(cache_location/key)
load(st, k) == Unpickle(st[k])

\* CacheManager.save: torch.save(data, cache_location/key), which creates the
\* file or replaces its content.
save(st, data, k) ==
    [f \in DOMAIN st \cup {k} |-> IF f = k THEN Pickle(data) ELSE st[f]]

\* CacheManager.delete: os.remove, a missing file is ignored.
delete_noop(st, k) == st
delete_all(st, k) == NoFiles
delete(st, k) == [f \in DOMAIN st \ {k} |-> st[f]]

\* execute_cached_operation(processor, clear_cache, arguments, cache_key):
\* digest = key(cache_key); delete(digest) when clear_cache; load(digest) when
\* has(digest); otherwise run the processor, save its result under the
\* digest and return it. `produced` is what the processor returns if it runs.
ExecuteCachedOperation(st, produced, clear_cache, cache_key) ==
    LET digest == key(cache_key)
        cleared == IF clear_cache THEN delete(st, digest) ELSE st
    IN  IF has(cleared, digest)
        THEN [store |-> cleared, ret |-> load(cleared, digest), invoked |-> FALSE]
        ELSE [store |-> save(cleared, produced, digest), ret |-> produced,
              invoked |-> TRUE]

\* The cache keys of the runs: two orders of the same map and a different map.
CacheKeyAB == Dict(<<Item("a", Atom(<<"x">>)), Item("b", Atom(<<"x">>))>>)
CacheKeyBA == Dict(<<Item("b", Atom(<<"x">>)), Item("a", Atom(<<"x">>))>>)
CacheKeyA == Dict(<<Item("a", Atom(<<"x">>))>>)
CacheKeys == {CacheKeyAB, CacheKeyBA, CacheKeyA}

\* What a processor run may return: a run need not reproduce an earlier result.
Results == {"r1", "r2"}

InitCache ==
    /\ store = NoFiles
    /\ calls = <<>>
    /\ IdleChunks /\ IdlePipe /\ IdleKey /\ IdleAug /\ IdleFactory /\ IdleRest

\* One call of execute_cached_operation, from its first line to its return.
CallExecuteCachedOperation ==
    /\ Len(calls) < MaxCalls
    /\ \E cache_key \in CacheKeys, clear_cache \in BOOLEAN, produced \in Results :
          LET out == ExecuteCachedOperation(store, produced, clear_cache, cache_key)
          IN  /\ store' = out.store
              /\ calls' = Append(calls, [cache_key |-> cache_key,
                                         clear_cache |-> clear_cache,
                                         found |-> has(store, key(cache_key)),
                                         invoked |-> out.invoked,
                                         ret |-> out.ret])
    /\ UNCHANGED <<chunkVars, pipeVars, keyVars, augVars, factoryVars, restVars>>

NextCache == CallExecuteCachedOperation

SpecCache == InitCache /\ [][NextCache]_vars

\* C4: of two calls in sequence with identical cacheKeyParams and
\* clearCache = false, the second never runs the producer and returns a value
\* equal to the first call's; the first runs the producer (so the two calls
\* run it exactly once) when it found no entry.
C4_CacheIdempotence ==
    \A i \in 1..Len(calls) - 1 :
        (/\ calls[i].cache_key = calls[i + 1].cache_key
         /\ ~calls[i].clear_cache
         /\ ~calls[i + 1].clear_cache) =>
            /\ ~calls[i + 1].invoked
            /\ calls[i + 1].ret = calls[i].ret
            /\ ~calls[i].found => calls[i].invoked

\* Two calls in sequence with the same key and clearCache = false, the first
\* on a cache without the entry: the producer ran once, the values agree.
C4_Witness ==
    \E i \in 1..Len(calls) - 1 :
        /\ calls[i].cache_key = calls[i + 1].cache_key
        /\ ~calls[i].clear_cache /\ ~calls[i + 1].clear_cache
        /\ ~calls[i].found /\ calls[i].invoked /\ ~calls[i + 1].invoked
        /\ calls[i + 1].ret = calls[i].ret

\* C5: a call with clearCache = true always runs the producer, also when an
\* entry existed, and afterwards the store holds the new result under the
\* digest.
C5_CacheInvalidation ==
    (calls # <<>> /\ calls[Len(calls)].clear_cache) =>
        LET last == calls[Len(calls)]
        IN  /\ last.invoked
            /\ has(store, key(last.cache_key))
            /\ load(store, key(last.cache_key)) = last.ret

\* A clearCache = true call on an existing entry whose value differs from the
\* new result: the producer ran and the entry now holds the new result.
C5_Witness ==
    /\ Len(calls) >= 2
    /\ LET last == calls[Len(calls)]
           prev == calls[Len(calls) - 1]
       IN  /\ last.clear_cache /\ last.found /\ last.invoked
           /\ key(prev.cache_key) = key(last.cache_key)
           /\ prev.ret # last.ret
           /\ load(store, key(last.cache_key)) = last.ret

\* ------------------------------------------------- the parallel pipeline

\* A sample as the loader yields it, and as preprocess returns it: the chain
\* mutates the sample's inputs in place and keeps its id_.
RawSample(idx) == [id_ |-> idx, inputs |-> "raw"]
Preprocess(idx) == [id_ |-> idx, inputs |-> "featurized"]

\* What preprocess does on a sample: return it, raise FeaturizationError, or
\* raise another Exception.
Outcomes == {"ok", "featurization", "other"}

\* One iteration of the loop of _prepare_chunk on the sample of index idx: a
\* task t = [state, n, dataset, log] appends the preprocessed sample, or logs
\* a warning (FeaturizationError) or an error (any other Exception) and drops
\* the sample; n counts the samples enumerated so far.
PrepareSample_keep_failed(t, idx, what) ==
    CASE what = "featurization" ->
            [t EXCEPT !.n = @ + 1, !.dataset = Append(@, RawSample(idx)),
                      !.log = Append(@, [level |-> "warning", id_ |-> idx])]
      [] what = "other" ->
            [t EXCEPT !.n = @ + 1, !.log = Append(@, [level |-> "error", id_ |-> idx])]
      [] OTHER -> [t EXCEPT !.n = @ + 1, !.dataset = Append(@, Preprocess(idx))]
PrepareSample_other_escapes(t, idx, what) ==
    CASE what = "ok" ->
            [t EXCEPT !.n = @ + 1, !.dataset = Append(@, Preprocess(idx))]
      [] what = "featurization" ->
            [t EXCEPT !.n = @ + 1, !.log = Append(@, [level |-> "warning", id_ |-> idx])]
      [] what = "other" -> [t EXCEPT !.state = "failed"]
PrepareSample(t, idx, what) ==
    CASE what = "ok" ->
            [t EXCEPT !.n = @ + 1, !.dataset = Append(@, Preprocess(idx))]
      [] what = "featurization" ->
            [t EXCEPT !.n = @ + 1, !.log = Append(@, [level |-> "warning", id_ |-> idx])]
      [] what = "other" ->
            [t EXCEPT !.n = @ + 1, !.log = Append(@, [level |-> "error", id_ |-> idx])]

\* A submitted task before its worker has enumerated a sample. A task ends
\* "done" with its dataset, or "failed" with the exception that left it.
NewTask == [state |-> "running", n |-> 0, dataset |-> <<>>, log |-> <<>>, failure |-> ""]

\* [future.result() for future in futures]: the results in futures order; the
\* result() of a failed future raises the task's exception, which ends the
\* comprehension.
future_results_skip_failed(tasks) ==
    [raised |-> FALSE,
     results |-> LET done == SelectSeq(tasks, LAMBDA t : t.state = "done")
                 IN  [w \in 1..Len(done) |-> done[w].dataset]]
future_results(tasks) ==
    IF \E w \in 1..Len(tasks) : tasks[w].state = "failed"
    THEN [raised |-> TRUE, results |-> <<>>]
    ELSE [raised |-> FALSE, results |-> [w \in 1..Len(tasks) |-> tasks[w].dataset]]

\* itertools.chain.from_iterable over the futures' results, in futures order.
RECURSIVE Chain(_)
Chain_reversed(results) ==
    IF results = <<>> THEN <<>>
    ELSE Chain(Tail(results)) \o Head(results)
Chain(results) ==
    IF results = <<>> THEN <<>>
    ELSE Head(results) \o Chain(Tail(results))

\* The disk-backed merge: disk_lists[0].extend(disk_list) for every later
\* disk list, in order.
RECURSIVE ExtendAll(_, _)
ExtendAll(dataset, disk_lists) ==
    IF disk_lists = <<>> THEN dataset
    ELSE ExtendAll(dataset \o Head(disk_lists), Tail(disk_lists))

InitPipe ==
    /\ dataset_len \in 0..MaxSamples
    /\ n_jobs \in 1..MaxJobs
    /\ chunks = NotRun
    /\ outcome \in [0..dataset_len - 1 -> Outcomes]
    /\ use_disk \in BOOLEAN
    /\ co_pc = "start"
    /\ futures = <<>>
    /\ progress = <<>>
    /\ n_finished = 0
    /\ first_done = 0
    /\ merged = <<>>
    /\ IdleKey /\ IdleCache /\ IdleAug /\ IdleFactory /\ IdleRest

\* _run_parrallel up to the polling loop: _get_chunks, whose exception leaves
\* the method, then one submitted task per chunk, task ids 1, 2, ... in chunk
\* order, and n_finished = 0.
RunParallelSubmit ==
    /\ co_pc = "start"
    /\ chunks' = _get_chunks(dataset_len, n_jobs)
    /\ IF chunks'.error # "none"
       THEN /\ co_pc' = "failed"
            /\ futures' = futures
       ELSE /\ co_pc' = "polling"
            /\ futures' = [w \in 1..Len(chunks'.chunks) |-> NewTask]
    /\ n_finished' = 0
    /\ UNCHANGED <<dataset_len, n_jobs, outcome, use_disk, progress, first_done, merged,
                   keyVars, cacheVars, augVars, factoryVars, restVars>>

\* progress[task_id] = {"progress": n + 1, "total": len(loader)}, n being
\* the index enumerate gives the sample.
ProgressEntry_index(n, loader_len) == [progress |-> n, total |-> loader_len]
ProgressEntry(n, loader_len) == [progress |-> n + 1, total |-> loader_len]

\* A worker runs one iteration of _prepare_chunk's loop on its chunk and
\* writes its own entry of the progress map.
WorkerStep(w) ==
    /\ co_pc = "polling"
    /\ futures[w].state = "running"
    /\ futures[w].n < Len(chunks.chunks[w])
    /\ LET idx == chunks.chunks[w][futures[w].n + 1]
       IN  futures' = [futures EXCEPT ![w] = PrepareSample(@, idx, outcome[idx])]
    /\ progress' = [t \in DOMAIN progress \cup {w} |->
                        IF t = w THEN ProgressEntry(futures[w].n, Len(chunks.chunks[w]))
                        ELSE progress[t]]
    /\ UNCHANGED <<chunkVars, outcome, use_disk, co_pc, n_finished, first_done, merged,
                   keyVars, cacheVars, augVars, factoryVars, restVars>>

\* A worker leaves the loop and returns its dataset: the future is done.
WorkerReturn(w) ==
    /\ co_pc = "polling"
    /\ futures[w].state = "running"
    /\ futures[w].n = Len(chunks.chunks[w])
    /\ futures' = [futures EXCEPT ![w].state = "done"]
    /\ first_done' = IF first_done = 0 THEN w ELSE first_done
    /\ UNCHANGED <<chunkVars, outcome, use_disk, co_pc, progress, n_finished, merged,
                   keyVars, cacheVars, augVars, factoryVars, restVars>>

\* A worker task ends with an exception raised outside the try block of
\* _prepare_chunk (the logging set-up of _init_logging_worker, the loader's
\* iteration, the disk list) or with its process gone: the future is done and
\* holds the exception.
WorkerFail(w) ==
    /\ co_pc = "polling"
    /\ futures[w].state = "running"
    /\ futures' = [futures EXCEPT ![w].state = "failed", ![w].failure = "infrastructure"]
    /\ first_done' = IF first_done = 0 THEN w ELSE first_done
    /\ UNCHANGED <<chunkVars, outcome, use_disk, co_pc, progress, n_finished, merged,
                   keyVars, cacheVars, augVars, factoryVars, restVars>>

\* sum([future.done() for future in futures]): a future is done once its
\* task returned or raised.
count_done_submitted(tasks) == Len(tasks)
count_done(tasks) == Cardinality({w \in 1..Len(tasks) : tasks[w].state # "running"})

\* One round of the polling loop: the progress map is read for the display,
\* then n_finished = sum(future.done() for future in futures).
Poll ==
    /\ co_pc = "polling"
    /\ n_finished < Len(futures)
    /\ n_finished' = count_done(futures)
    /\ UNCHANGED <<chunkVars, outcome, use_disk, co_pc, futures, progress, first_done,
                   merged, keyVars, cacheVars, augVars, factoryVars, restVars>>

\* The loop is left and the results are merged in futures order: extend on
\* the first disk list, or chain. The exception of a failed future leaves
\* _run_parrallel from future.result(), and nothing is returned.
Merge ==
    /\ co_pc = "polling"
    /\ n_finished >= Len(futures)
    /\ LET got == future_results(futures)
       IN  IF got.raised
           THEN /\ merged' = merged
                /\ co_pc' = "raised"
           ELSE /\ merged' = IF use_disk
                             THEN ExtendAll(got.results[1], Tail(got.results))
                             ELSE Chain(got.results)
                /\ co_pc' = "done"
    /\ UNCHANGED <<chunkVars, outcome, use_disk, futures, progress, n_finished,
                   first_done, keyVars, cacheVars, augVars, factoryVars, restVars>>

Next ==
    \/ RunParallelSubmit
    \/ \E w \in 1..Len(futures) : WorkerStep(w)
    \/ \E w \in 1..Len(futures) : WorkerReturn(w)
    \/ \E w \in 1..Len(futures) : WorkerFail(w)
    \/ Poll
    \/ Merge

Spec == InitPipe /\ [][Next]_vars

\* The transform chain run sequentially over the whole dataset in index
\* order: _prepare_chunk's loop over samples 0 .. len-1 in one task.
RECURSIVE SequentialRun(_, _)
SequentialRun(t, idx) ==
    IF idx >= dataset_len THEN t
    ELSE SequentialRun(PrepareSample(t, idx, outcome[idx]), idx + 1)

Range(seq) == {seq[k] : k \in 1..Len(seq)}
Count(seq, x) == Cardinality({k \in 1..Len(seq) : seq[k] = x})

\* C6: a worker that has finished its chunk holds every sample of the chunk
\* whose transform did not raise, and no other; its output size is the chunk
\* size minus the failed samples; and it logged exactly one warning per
\* sample that raised the recoverable featurization error, none for others.
\* The merged dataset has the dataset size minus the failed samples.
C6_FaultTolerance ==
    /\ \A w \in 1..Len(futures) :
          futures[w].state = "done" =>
            LET chunk == chunks.chunks[w]
                failed == {k \in 1..Len(chunk) : outcome[chunk[k]] # "ok"}
            IN  /\ \A k \in 1..Len(chunk) :
                      /\ outcome[chunk[k]] = "ok" <=>
                            Count(futures[w].dataset, Preprocess(chunk[k])) = 1
                      /\ Count(futures[w].log, [level |-> "warning", id_ |-> chunk[k]])
                            = IF outcome[chunk[k]] = "featurization" THEN 1 ELSE 0
                /\ Len(futures[w].dataset) = Len(chunk) - Cardinality(failed)
    /\ co_pc = "done" =>
          Len(merged) = dataset_len
                          - Cardinality({i \in 0..dataset_len - 1 : outcome[i] # "ok"})

\* A finished run where only recoverable errors occurred, on a sample that is
\* not the last of its chunk: the later samples were still processed.
C6_Witness ==
    /\ co_pc = "done"
    /\ dataset_len = MaxSamples
    /\ \A i \in 0..dataset_len - 1 : outcome[i] \in {"ok", "featurization"}
    /\ outcome[0] = "featurization"
    /\ outcome[1] = "ok"
    /\ Len(merged) = dataset_len
                       - Cardinality({i \in 0..dataset_len - 1 : outcome[i] = "featurization"})
    /\ \E w \in 1..Len(futures) :
          /\ Len(chunks.chunks[w]) >= 2
          /\ futures[w].log = <<[level |-> "warning", id_ |-> 0]>>

\* C7: whatever the order in which the worker tasks complete, the merged
\* result of either merge path is the result of the sequential run, sample
\* for sample and in the same order.
C7_MergeOrder ==
    co_pc = "done" => merged = SequentialRun(NewTask, 0).dataset

\* A merged run over several chunks in which the last chunk's task completed
\* first and a sample was dropped.
C7_Witness ==
    /\ co_pc = "done"
    /\ Len(futures) >= 2
    /\ first_done = Len(futures)
    /\ Len(merged) >= 2
    /\ Len(merged) < dataset_len
    /\ merged = SequentialRun(NewTask, 0).dataset

\* ---------------------------------------------------- static augmentation

\* The id_ of a synthetic sample before _load_augmented_data numbers it.
NoId == -1

\* An augmentation stage's aug_dataset: a plain list ("list") or another
\* dataset type ("loader"), with the id_ of each of its samples in
\* generation order. The cached preprocessor's stages all hold the list
\* that _run_parrallel returned.
Forms(mode) == IF mode = "online" THEN {"list", "loader"} ELSE {"list"}
AugDatasets(mode) ==
    {[form |-> f, ids |-> [k \in 1..n |-> NoId]] : f \in Forms(mode), n \in 0..MaxAugLen}

\* OnlinePreprocessor._load_augmented_data, first loop: i is the total length
\* of the datasets that are not lists.
RECURSIVE NonListLength(_)
NonListLength(datasets) ==
    IF datasets = <<>> THEN 0
    ELSE (IF Head(datasets).form = "list" THEN 0 ELSE Len(Head(datasets).ids))
            + NonListLength(Tail(datasets))

\* The numbering loop: data.id_ = self.dataset_size + i; i += 1 over the
\* datasets in stage order; the online preprocessor skips the datasets that
\* are not lists, the cached one numbers every dataset.
AssignIds_restart(datasets, size, i, skipNonList) ==
    [n \in 1..Len(datasets) |->
        IF skipNonList /\ datasets[n].form # "list" THEN datasets[n]
        ELSE [datasets[n] EXCEPT !.ids = [k \in 1..Len(@) |-> size + i + k - 1]]]
RECURSIVE AssignIds(_, _, _, _)
AssignIds(datasets, size, i, skipNonList) ==
    IF datasets = <<>> THEN <<>>
    ELSE LET h == Head(datasets)
         IN  IF skipNonList /\ h.form # "list"
             THEN <<h>> \o AssignIds(Tail(datasets), size, i, skipNonList)
             ELSE <<[h EXCEPT !.ids = [k \in 1..Len(@) |-> size + i + k - 1]]>>
                    \o AssignIds(Tail(datasets), size, i + Len(h.ids), skipNonList)

InitAug ==
    /\ aug_mode \in {"online", "cache"}
    /\ dataset_size \in 0..MaxBase
    /\ aug_datasets \in SeqsUpTo(AugDatasets(aug_mode), MaxStages)
    /\ aug_pc = "start"
    /\ IdleChunks /\ IdlePipe /\ IdleKey /\ IdleCache /\ IdleFactory /\ IdleRest

\* OnlinePreprocessor._load_augmented_data, once the stages hold their
\* datasets.
LoadAugmentedDataOnline ==
    /\ aug_mode = "online"
    /\ aug_pc = "start"
    /\ aug_datasets' = AssignIds(aug_datasets, dataset_size,
                                 NonListLength(aug_datasets), TRUE)
    /\ aug_pc' = "done"
    /\ UNCHANGED <<aug_mode, dataset_size, chunkVars, pipeVars, keyVars, cacheVars,
                   factoryVars, restVars>>

\* CachePreprocessor._load_augmented_data, once the stages hold their
\* datasets.
LoadAugmentedDataCache ==
    /\ aug_mode = "cache"
    /\ aug_pc = "start"
    /\ aug_datasets' = AssignIds(aug_datasets, dataset_size, 0, FALSE)
    /\ aug_pc' = "done"
    /\ UNCHANGED <<aug_mode, dataset_size, chunkVars, pipeVars, keyVars, cacheVars,
                   factoryVars, restVars>>

\* The samples of a dataset are told apart by where they come from: the
\* k-th sample of the base dataset is <<0, k>>, the k-th synthetic sample of
\* stage n is <<n, k>>.
BaseSamples(size) == [k \in 1..size |-> <<0, k>>]
StageSamples(datasets, n) == [k \in 1..Len(datasets[n].ids) |-> <<n, k>>]
StageDataset(datasets, n) ==
    [form |-> datasets[n].form, samples |-> StageSamples(datasets, n)]

\* dataset + other: the samples of the first followed by those of the second.
Plus(dataset, other) == [dataset EXCEPT !.samples = @ \o other.samples]

\* OnlinePreprocessor._add_static_aug_dataset, first loop: the stages whose
\* dataset is not a list are added to the dataset, in stage order.
RECURSIVE AddNonList(_, _, _)
AddNonList(dataset, datasets, n) ==
    IF n > Len(datasets) THEN dataset
    ELSE AddNonList(IF datasets[n].form = "list" THEN dataset
                    ELSE Plus(dataset, StageDataset(datasets, n)),
                    datasets, n + 1)

\* dataset.get_all(), taken when some stage holds a list.
GetAll(dataset, datasets) ==
    IF \E n \in 1..Len(datasets) : datasets[n].form = "list"
    THEN [dataset EXCEPT !.form = "list"]
    ELSE dataset

\* OnlinePreprocessor._add_static_aug_dataset, last loop: the loop variable
\* is called dataset, so every iteration rebinds dataset to the stage's
\* aug_dataset; a list-form one is then added to a.aug_dataset, a being the
\* last stage, where the first loop left it.
RECURSIVE AddLists(_, _, _)
AddLists(dataset, datasets, n) ==
    IF n > Len(datasets) THEN dataset
    ELSE AddLists(IF datasets[n].form = "list"
                  THEN Plus(StageDataset(datasets, n), StageDataset(datasets, Len(datasets)))
                  ELSE StageDataset(datasets, n),
                  datasets, n + 1)

AddStaticAugDatasetOnline(dataset, datasets) ==
    AddLists(GetAll(AddNonList(dataset, datasets, 1), datasets), datasets, 1)

\* CachePreprocessor._add_static_aug_dataset: tmp_dataset += a.aug_dataset
\* for every stage, in stage order, wrapped in a ListLoader.
RECURSIVE AddAll(_, _, _)
AddAll(dataset, datasets, n) ==
    IF n > Len(datasets) THEN dataset
    ELSE AddAll(Plus(dataset, StageDataset(datasets, n)), datasets, n + 1)
AddStaticAugDatasetCache(dataset, datasets) ==
    [AddAll(dataset, datasets, 1) EXCEPT !.form = "loader"]

\* _add_static_aug_dataset on the dataset _load_dataset returned, after
\* _load_augmented_data.
AddStaticAugDataset ==
    /\ aug_pc = "done"
    /\ aug_merged = NotMerged
    /\ LET dataset == [form |-> "loader", samples |-> BaseSamples(dataset_size)]
           out == IF aug_mode = "online"
                  THEN AddStaticAugDatasetOnline(dataset, aug_datasets)
                  ELSE AddStaticAugDatasetCache(dataset, aug_datasets)
       IN  aug_merged' = [merged |-> TRUE, form |-> out.form, samples |-> out.samples]
    /\ UNCHANGED <<augVars, chunkVars, pipeVars, keyVars, cacheVars, factoryVars,
                   fileVars, raceVars, deleteVars, chainVars, loadVars, descVars>>

NextAug == LoadAugmentedDataOnline \/ LoadAugmentedDataCache \/ AddStaticAugDataset

SpecAug == InitAug /\ [][NextAug]_vars

\* The identifiers of the list-form synthetic samples, in generation order.
RECURSIVE ListIds(_)
ListIds(datasets) ==
    IF datasets = <<>> THEN <<>>
    ELSE (IF Head(datasets).form = "list" THEN Head(datasets).ids ELSE <<>>)
            \o ListIds(Tail(datasets))

\* C8 as stated: the k list-form synthetic samples receive the identifiers
\* N, N+1, ..., N+k-1 in generation order.
C8_IdsContinueFromBase ==
    aug_pc = "done" =>
        ListIds(aug_datasets) =
            [j \in 1..Len(ListIds(aug_datasets)) |-> dataset_size + j - 1]

\* C8 amended: the k list-form synthetic samples receive the identifiers
\* N+m, ..., N+m+k-1 in generation order, m being the total length of the
\* augmentation datasets that are not lists (m = 0 when every stage is
\* list-form, as in the cached preprocessor).
C8_IdsContinueAfterNonList ==
    aug_pc = "done" =>
        ListIds(aug_datasets) =
            [j \in 1..Len(ListIds(aug_datasets)) |->
                dataset_size + NonListLength(aug_datasets) + j - 1]

\* The online preprocessor numbers a list-form stage that follows a stage
\* whose dataset is not a list: its identifiers start after both.
C8_Witness ==
    /\ aug_pc = "done"
    /\ aug_mode = "online"
    /\ dataset_size = MaxBase
    /\ Len(aug_datasets) = 2
    /\ aug_datasets[1].form = "loader" /\ Len(aug_datasets[1].ids) = 1
    /\ aug_datasets[2].form = "list"
    /\ aug_datasets[2].ids = <<dataset_size + 1, dataset_size + 2>>

\* Every sample of the base dataset followed by every synthetic sample of
\* every stage, in stage order.
RECURSIVE AllStages(_, _)
AllStages(datasets, n) ==
    IF n > Len(datasets) THEN <<>>
    ELSE StageSamples(datasets, n) \o AllStages(datasets, n + 1)
BaseThenSynthetic == BaseSamples(dataset_size) \o AllStages(aug_datasets, 1)

\* C22: the dataset _add_static_aug_dataset returns holds every sample of
\* the base dataset followed by every synthetic sample of every stage, each
\* exactly once, in the online and in the cached preprocessor.
C22_MergeComplete ==
    aug_merged.merged => aug_merged.samples = BaseThenSynthetic

\* The cached preprocessor alone returns the complete dataset.
MergeCompleteInCache ==
    (aug_merged.merged /\ aug_mode = "cache") => aug_merged.samples = BaseThenSynthetic

\* The online preprocessor returns the complete dataset only when there is
\* no stage at all or nothing to lose: otherwise what it returns starts from
\* the last stage's dataset.
OnlineMergeLosesBase ==
    (aug_merged.merged /\ aug_mode = "online" /\ aug_datasets # <<>> /\ dataset_size > 0) =>
        aug_merged.samples # BaseThenSynthetic

\* ------------------------------------------------------------ SuperFactory

\* Strings the factory takes apart are sequences of characters.
S_type == "type"
S_Abstract == <<"A", "b", "s", "t", "r", "a", "c", "t">>
S_foo == <<"f", "o", "o">>
S_baz == <<"b", "a", "z">>
S_foo_baz == <<"f", "o", "o", "_", "b", "a", "z">>
S_qux == <<"q", "u", "x">>
S_deep == <<"d", "e", "e", "p">>
S_nope == <<"n", "o", "p", "e">>
S_p_FooBar == <<"p", ".", "F", "o", "o", "B", "a", "r">>
S_p_Nope == <<"p", ".", "N", "o", "p", "e">>
S_m_FooBar == <<"m", ".", "F", "o", "o", "B", "a", "r">>
S_p == <<"p">>
S_1 == <<"1">>

\* str.upper on one character.
Upper(c) ==
    CASE c = "a" -> "A"
      [] c = "b" -> "B"
      [] c = "c" -> "C"
      [] c = "d" -> "D"
      [] c = "e" -> "E"
      [] c = "f" -> "F"
      [] c = "g" -> "G"
      [] c = "h" -> "H"
      [] c = "i" -> "I"
      [] c = "j" -> "J"
      [] c = "k" -> "K"
      [] c = "l" -> "L"
      [] c = "m" -> "M"
      [] c = "n" -> "N"
      [] c = "o" -> "O"
      [] c = "p" -> "P"
      [] c = "q" -> "Q"
      [] c = "r" -> "R"
      [] c = "s" -> "S"
      [] c = "t" -> "T"
      [] c = "u" -> "U"
      [] c = "v" -> "V"
      [] c = "w" -> "W"
      [] c = "x" -> "X"
      [] c = "y" -> "Y"
      [] c = "z" -> "Z"
      [] OTHER -> c

\* humps.pascalize on a snake_case string ("very_smart_Calculator" gives
\* "VerySmartCalculator"): the first character and every character that
\* follows an underscore are upper-cased, the underscores are dropped.
RECURSIVE PascalizeFrom(_, _)
PascalizeFrom(str, up) ==
    IF str = <<>> THEN <<>>
    ELSE IF Head(str) = "_" THEN PascalizeFrom(Tail(str), TRUE)
    ELSE <<IF up THEN Upper(Head(str)) ELSE Head(str)>> \o PascalizeFrom(Tail(str), FALSE)
pascalize_unchanged(str) == str
pascalize(str) == PascalizeFrom(str, TRUE)

\* str.replace(old, ""): every occurrence of old, left to right, is removed.
RECURSIVE Replace(_, _)
Replace(str, old) ==
    IF Len(str) < Len(old) THEN str
    ELSE IF SubSeq(str, 1, Len(old)) = old
         THEN Replace(SubSeq(str, Len(old) + 1, Len(str)), old)
         ELSE <<Head(str)>> \o Replace(Tail(str), old)

\* "." in dependency_type
Contains(str, c) == \E n \in 1..Len(str) : str[n] = c

\* dependency.rsplit(".", 1) of a string that holds a "."
RSplit(str) ==
    LET dot == CHOOSE n \in 1..Len(str) :
                   str[n] = "." /\ \A m \in n + 1..Len(str) : str[m] # "."
    IN  <<SubSeq(str, 1, dot - 1), SubSeq(str, dot + 1, Len(str))>>

\* Python dicts as Dict values: lookup, assignment (an existing key keeps its
\* place), pop and {**a, **b}.
DictHas(d, k) == \E n \in 1..Len(d.items) : d.items[n].k = k
DictGet(d, k) == d.items[CHOOSE n \in 1..Len(d.items) : d.items[n].k = k].val
DictSet(d, k, val) ==
    IF DictHas(d, k)
    THEN Dict([n \in 1..Len(d.items) |->
                  IF d.items[n].k = k THEN Item(k, val) ELSE d.items[n]])
    ELSE Dict(Append(d.items, Item(k, val)))
DictPop(d, k) == Dict(SelectSeq(d.items, LAMBDA it : it.k # k))
RECURSIVE DictMergeItems(_, _)
DictMergeItems(d, items) ==
    IF items = <<>> THEN d
    ELSE DictMergeItems(DictSet(d, Head(items).k, Head(items).val), Tail(items))
DictMerge(a, b) == DictMergeItems(a, b.items)
DictKeys(d) == [n \in 1..Len(d.items) |-> d.items[n].k]

\* The classes the running program has loaded, in definition order, all in
\* module "p". "object" stands for a base outside the families.
ClassOrder == <<"AbstractBar", "FooBar", "BazBar", "FooBazBar", "AbstractQux", "DeepQux">>
Classes == {ClassOrder[n] : n \in 1..Len(ClassOrder)}

\* A class of another module, "q", that is also called FooBar. It is
\* defined after the classes of "p" once "q" is imported; parent_of holds
\* the classes that are loaded.
OtherFooBar == "q.FooBar"
LoadedOrder == ClassOrder \o <<OtherFooBar>>

\* cls.__name__
ClassName(c) ==
    CASE c = "AbstractBar" -> <<"A", "b", "s", "t", "r", "a", "c", "t", "B", "a", "r">>
      [] c \in {"FooBar", OtherFooBar} -> <<"F", "o", "o", "B", "a", "r">>
      [] c = "BazBar" -> <<"B", "a", "z", "B", "a", "r">>
      [] c = "FooBazBar" -> <<"F", "o", "o", "B", "a", "z", "B", "a", "r">>
      [] c = "AbstractQux" -> <<"A", "b", "s", "t", "r", "a", "c", "t", "Q", "u", "x">>
      [] c = "DeepQux" -> <<"D", "e", "e", "p", "Q", "u", "x">>

\* Classes with an abstract method cannot be instantiated.
IsAbstract(c) == c \in {"AbstractBar", "AbstractQux"}

\* Declared types of constructor parameters.
TClass(c) == [kind |-> "class", cls |-> c]
TOptional(c) == [kind |-> "Optional", cls |-> c]
TDict == [kind |-> "Dict", cls |-> ""]
TOther == [kind |-> "other", cls |-> ""]

\* cls.__init__.__annotations__:
\*   FooBar.__init__(self, size: int, inner: AbstractQux,
\*                   maybe: Optional[AbstractQux], opts: Dict[str, Any], raw)
\*   BazBar / FooBazBar.__init__(self, size: int)
\*   DeepQux.__init__(self, depth: int)
Annotations(c) ==
    CASE c = "FooBar" -> [size |-> TOther, inner |-> TClass("AbstractQux"),
                          maybe |-> TOptional("AbstractQux"), opts |-> TDict]
      [] c \in {"BazBar", "FooBazBar"} -> [size |-> TOther]
      [] c = "DeepQux" -> [depth |-> TOther]
      [] OTHER -> <<>>

\* The keyword arguments the constructor accepts.
InitArgs(c) ==
    CASE c = "FooBar" -> {"size", "inner", "maybe", "opts", "raw"}
      [] c \in {"BazBar", "FooBazBar"} -> {"size"}
      [] c = "DeepQux" -> {"depth"}
      [] OTHER -> {}

\* cls.__init__.__code__.co_varnames: self, the parameters and then the local
\* variables of the constructor body (FooBar's body has a local "tmp").
CoVarnames(c) ==
    {"self"} \cup InitArgs(c) \cup (IF c = "FooBar" THEN {"tmp"} ELSE {})

\* parent.__subclasses__(): the direct subclasses, in definition order.
Subclasses(parent) ==
    SelectSeq(LoadedOrder, LAMBDA c : c \in DOMAIN parent_of /\ parent_of[c] = parent)

\* SuperFactory.find_descendants: name -> class for every child, merged with
\* the child's own descendants when it has subclasses.
RECURSIVE find_descendants(_)
RECURSIVE FindDescendantsLoop(_, _)
FindDescendantsLoop(descendants, children) ==
    IF children = <<>> THEN descendants
    ELSE LET child == Head(children)
             with_child == DictSet(descendants, ClassName(child), child)
         IN  FindDescendantsLoop(
                 IF Len(Subclasses(child)) > 0
                 THEN DictMerge(with_child, find_descendants(child))
                 ELSE with_child,
                 Tail(children))
find_descendants_direct(parent) ==
    Dict([n \in 1..Len(Subclasses(parent)) |->
             Item(ClassName(Subclasses(parent)[n]), Subclasses(parent)[n])])
find_descendants(parent) == FindDescendantsLoop(Dict(<<>>), Subclasses(parent))

\* An instance: its class and the keyword arguments its constructor got.
Object(c, options) == [t |-> "object", v |-> ClassName(c), items |-> options.items]
NoObject == [t |-> "none", v |-> <<>>, items |-> <<>>]
NoDetail == [name |-> <<>>, available |-> <<>>, option |-> ""]

\* What a call returns or raises: the instance, or the exception with what
\* its message names; resolved is the concrete class the call settled on and
\* built the classes whose constructor the call ran, in order.
Returned(c, obj, built) ==
    [ok |-> TRUE, error |-> "", value |-> obj, detail |-> NoDetail,
     resolved |-> c, built |-> built]
Raised(error, detail, c, built) ==
    [ok |-> FALSE, error |-> error, value |-> NoObject, detail |-> detail,
     resolved |-> c, built |-> built]

\* SuperFactory.reflect: importlib.import_module, then getattr on the module.
reflect(dependency) ==
    LET module_name == RSplit(dependency)[1]
        class_name == RSplit(dependency)[2]
    IN  IF module_name # S_p
        THEN [ok |-> FALSE, error |-> "ModuleNotFoundError", cls |-> ""]
        ELSE IF \E c \in Classes : ClassName(c) = class_name
             THEN [ok |-> TRUE, error |-> "",
                   cls |-> CHOOSE c \in Classes : ClassName(c) = class_name]
             ELSE [ok |-> FALSE, error |-> "AttributeError", cls |-> ""]

\* The "type" branch of create: the concrete class for dependency_type, or
\* the exception raised.
Resolve(instantiator, dependency_type) ==
    IF Contains(dependency_type, ".")
    THEN LET got == reflect(dependency_type)
         IN  [ok |-> got.ok, error |-> got.error, cls |-> got.cls, detail |-> NoDetail]
    ELSE LET \* the fix for Optional arguments: instantiator.__args__[0]
             base == instantiator.cls
             option_key == Replace(ClassName(base), S_Abstract)
             dependency_name == pascalize(dependency_type \o <<"_">> \o option_key)
             subclasses == find_descendants(base)
         IN  IF ~DictHas(subclasses, dependency_name)
             THEN [ok |-> FALSE, error |-> "ReflectionError", cls |-> "",
                   detail |-> [name |-> dependency_name,
                               available |-> DictKeys(subclasses), option |-> ""]]
             ELSE [ok |-> TRUE, error |-> "", cls |-> DictGet(subclasses, dependency_name),
                   detail |-> NoDetail]

\* instantiator(**options): TypeError for an abstract class or a keyword the
\* constructor does not accept.
Construct(c, options, built) ==
    IF IsAbstract(c) \/ \E n \in 1..Len(options.items) : options.items[n].k \notin InitArgs(c)
    THEN Raised("TypeError", NoDetail, c, built)
    ELSE Returned(c, Object(c, options), Append(built, c))

\* hasattr(attribute, "_name") and attribute._name == "Dict": the declared type
\* is typing.Dict, so a dictionary is what the constructor expects.
ExpectsDict_always(attribute) == TRUE
ExpectsDict(attribute) == attribute.kind = "Dict"

\* SuperFactory.create(instantiator, dynamic_parameters, loaded_parameters).
\* CreateOptions is the loop over dynamic_parameters.items(): n is the position
\* reached, params the copy with the nested objects built so far.
RECURSIVE create(_, _, _)
RECURSIVE CreateOptions(_, _, _, _)
CreateOptions(c, params, n, built) ==
    IF n > Len(params.items) THEN [ok |-> TRUE, params |-> params, built |-> built]
    ELSE LET option_name == params.items[n].k
             option_value == params.items[n].val
         IN  IF option_name \notin CoVarnames(c)
             THEN [ok |-> FALSE, built |-> built,
                   raised |-> Raised("ReflectionError",
                                     [name |-> ClassName(c), available |-> <<>>,
                                      option |-> option_name], c, built)]
             ELSE IF option_name \notin DOMAIN Annotations(c)
             THEN CreateOptions(c, params, n + 1, built)
             ELSE IF option_value.t = "dict" /\ ~ExpectsDict(Annotations(c)[option_name])
             THEN LET sub == create(Annotations(c)[option_name], option_value, NoObject)
                  IN  IF sub.ok
                      THEN CreateOptions(c, DictSet(params, option_name, sub.value),
                                         n + 1, built \o sub.built)
                      ELSE [ok |-> FALSE, built |-> built \o sub.built,
                            raised |-> Raised(sub.error, sub.detail, c, built \o sub.built)]
             ELSE CreateOptions(c, params, n + 1, built)
create(instantiator, dynamic_parameters, loaded_parameters) ==
    LET has_type == DictHas(dynamic_parameters, S_type)
        \* dynamic_parameters.copy() and pop("type")
        params == IF has_type THEN DictPop(dynamic_parameters, S_type)
                  ELSE dynamic_parameters
        resolution == IF has_type
                      THEN Resolve(instantiator, DictGet(dynamic_parameters, S_type).v)
                      ELSE [ok |-> instantiator.kind = "class", error |-> "TypeError",
                            cls |-> instantiator.cls, detail |-> NoDetail]
    IN  IF ~resolution.ok
        THEN Raised(resolution.error, resolution.detail, "", <<>>)
        ELSE LET c == resolution.cls
                 looped == IF Len(params.items) > 0 THEN CreateOptions(c, params, 1, <<>>)
                           ELSE [ok |-> TRUE, params |-> params, built |-> <<>>]
             IN  IF ~looped.ok THEN looped.raised
                 ELSE Construct(c,
                                IF loaded_parameters = NoObject THEN looped.params
                                ELSE DictMerge(looped.params, loaded_parameters),
                                looped.built)

\* dynamic_parameters.copy(): the name is bound to a new dict with the same
\* items (the values are the same objects), not to the caller's dict.
dict_copy_same_object(d) == [same_object |-> TRUE, map |-> d]
dict_copy(d) == [same_object |-> FALSE, map |-> d]

\* The dict object the caller passed as dynamic_parameters, as create leaves
\* it when it returns or raises. mine is the dict create works on (the "type"
\* entry popped, nested objects put in the place of their options), theirs
\* the caller's dict; a nested dict is one object in both, and the nested
\* call leaves it as MapAfterCreate says.
RECURSIVE MapAfterCreate(_, _)
RECURSIVE MapAfterOptions(_, _, _, _, _)
MapAfterOptions(c, mine, theirs, n, same_object) ==
    IF n > Len(mine.items) THEN (IF same_object THEN mine ELSE theirs)
    ELSE LET option_name == mine.items[n].k
             option_value == mine.items[n].val
         IN  IF option_name \notin CoVarnames(c)
             THEN (IF same_object THEN mine ELSE theirs)
             ELSE IF option_name \notin DOMAIN Annotations(c)
             THEN MapAfterOptions(c, mine, theirs, n + 1, same_object)
             ELSE IF option_value.t = "dict" /\ ~ExpectsDict(Annotations(c)[option_name])
             THEN LET sub == create(Annotations(c)[option_name], option_value, NoObject)
                      nested == MapAfterCreate(Annotations(c)[option_name], option_value)
                      theirs_now == DictSet(theirs, option_name, nested)
                  IN  IF sub.ok
                      THEN MapAfterOptions(c, DictSet(mine, option_name, sub.value),
                                           theirs_now, n + 1, same_object)
                      ELSE (IF same_object THEN DictSet(mine, option_name, nested)
                            ELSE theirs_now)
             ELSE MapAfterOptions(c, mine, theirs, n + 1, same_object)
MapAfterCreate(instantiator, dynamic_parameters) ==
    LET copied == dict_copy(dynamic_parameters)
        has_type == DictHas(copied.map, S_type)
        mine == IF has_type THEN DictPop(copied.map, S_type) ELSE copied.map
        resolution == IF has_type
                      THEN Resolve(instantiator, DictGet(copied.map, S_type).v)
                      ELSE [ok |-> instantiator.kind = "class", error |-> "TypeError",
                            cls |-> instantiator.cls, detail |-> NoDetail]
    IN  IF ~resolution.ok \/ Len(mine.items) = 0
        THEN (IF copied.same_object THEN mine ELSE dynamic_parameters)
        ELSE MapAfterOptions(resolution.cls, mine, dynamic_parameters, 1, copied.same_object)

\* The class hierarchies: a class extends "object" or a class defined before
\* it in its family.
Hierarchies ==
    {[c \in Classes |->
        CASE c = "FooBar" -> f
          [] c = "BazBar" -> b
          [] c = "FooBazBar" -> z
          [] c = "DeepQux" -> "AbstractQux"
          [] OTHER -> "object"] :
        f \in {"object", "AbstractBar"},
        b \in {"object", "AbstractBar", "FooBar"},
        z \in {"object", "AbstractBar", "FooBar", "BazBar"}}

\* The "type" entries and the other options of the requests.
TypeItems ==
    {<<>>} \cup {<<Item(S_type, Atom(v))>> :
                    v \in {S_foo, S_baz, S_foo_baz, S_qux, S_p_FooBar, S_p_Nope, S_m_FooBar}}
DeepSpec == Dict(<<Item(S_type, Atom(S_deep)), Item("depth", Atom(S_1))>>)
OptionItems ==
    { <<>>,
      <<Item("size", Atom(S_1))>>,
      <<Item("bogus", Atom(S_1))>>,
      <<Item("tmp", Atom(S_1))>>,
      <<Item("inner", DeepSpec)>>,
      <<Item("inner", Dict(<<Item(S_type, Atom(S_nope))>>))>>,
      <<Item("inner", Dict(<<Item(S_type, Atom(S_deep)), Item("bogus", Atom(S_1))>>))>>,
      <<Item("opts", DeepSpec)>>,
      <<Item("raw", DeepSpec)>>,
      <<Item("maybe", DeepSpec), Item("size", Atom(S_1))>>,
      <<Item("maybe", DeepSpec), Item("bogus", Atom(S_1))>> }
LoadedParameters == {NoObject, Dict(<<Item("size", Atom(S_1))>>)}

NotCalled == <<>>

InitFactory ==
    /\ parent_of \in Hierarchies
    /\ \E instantiator \in {TClass("AbstractBar"), TClass("FooBar")},
          ty \in TypeItems, opts \in OptionItems, loaded \in LoadedParameters :
          fa_request = [instantiator |-> instantiator,
                        dynamic_parameters |-> Dict(ty \o opts),
                        loaded_parameters |-> loaded]
    /\ fa_result = NotCalled
    /\ fa_after = NotCalled
    /\ IdleChunks /\ IdlePipe /\ IdleKey /\ IdleCache /\ IdleAug /\ IdleRest

\* One call of SuperFactory.create, to its return or its exception.
Create ==
    /\ fa_result = NotCalled
    /\ fa_result' = create(fa_request.instantiator, fa_request.dynamic_parameters,
                           fa_request.loaded_parameters)
    /\ fa_after' = MapAfterCreate(fa_request.instantiator, fa_request.dynamic_parameters)
    /\ UNCHANGED <<parent_of, fa_request, chunkVars, pipeVars, keyVars, cacheVars, augVars,
                   restVars>>

NextFactory == Create

SpecFactory == InitFactory /\ [][NextFactory]_vars

\* d is a direct or indirect subclass of c.
RECURSIVE IsDescendant(_, _)
IsDescendant(d, c) ==
    /\ d \in DOMAIN parent_of
    /\ \/ parent_of[d] = c
       \/ IsDescendant(parent_of[d], c)
Descendants(c) == {d \in DOMAIN parent_of : IsDescendant(d, c)}

\* The request names a short variant (no "." in it).
ShortRequest ==
    /\ fa_request # <<>>
    /\ DictHas(fa_request.dynamic_parameters, S_type)
    /\ ~Contains(DictGet(fa_request.dynamic_parameters, S_type).v, ".")
RequestedVariant == DictGet(fa_request.dynamic_parameters, S_type).v

\* The class whose name is the PascalCase combination of a variant and a base
\* name, written out: "foo" under AbstractBar is FooBar, and so on; "" when
\* the program has no class of that name.
NamedClass(variant, base) ==
    CASE base = "AbstractBar" /\ variant = S_foo -> "FooBar"
      [] base = "AbstractBar" /\ variant = S_baz -> "BazBar"
      [] base = "AbstractBar" /\ variant = S_foo_baz -> "FooBazBar"
      [] OTHER -> ""
Wanted == NamedClass(RequestedVariant, fa_request.instantiator.cls)

\* C9: for a short variant name v under base B, create settles on the
\* descendant of B, direct or indirect, whose name is the PascalCase
\* combination of v and B whenever there is one, on no other class, and what
\* it returns is an instance of exactly that class.
C9_FactoryResolution ==
    (fa_result # NotCalled /\ ShortRequest) =>
        /\ (Wanted # "" /\ IsDescendant(Wanted, fa_request.instantiator.cls))
              => fa_result.resolved = Wanted
        /\ fa_result.resolved # ""
              => /\ fa_result.resolved = Wanted
                 /\ IsDescendant(fa_result.resolved, fa_request.instantiator.cls)
        /\ fa_result.ok
              => /\ fa_result.value.t = "object"
                 /\ fa_result.value.v = ClassName(Wanted)

\* "foo_baz" under AbstractBar, with FooBazBar an indirect descendant, yields
\* a FooBazBar instance.
C9_Witness ==
    /\ fa_result # NotCalled
    /\ ShortRequest
    /\ RequestedVariant = S_foo_baz
    /\ fa_request.instantiator.cls = "AbstractBar"
    /\ parent_of["FooBazBar"] = "BazBar"
    /\ parent_of["BazBar"] = "AbstractBar"
    /\ fa_result.ok
    /\ fa_result.value.v = ClassName("FooBazBar")

\* C10: a short variant name that matches no descendant of the requested
\* type fails with a ReflectionError whose message lists the names of all the
\* descendants, and no constructor has run.
C10_UnknownVariant ==
    (/\ fa_result # NotCalled
     /\ ShortRequest
     /\ ~(Wanted # "" /\ IsDescendant(Wanted, fa_request.instantiator.cls))) =>
        /\ ~fa_result.ok
        /\ fa_result.error = "ReflectionError"
        /\ Range(fa_result.detail.available)
              = {ClassName(d) : d \in Descendants(fa_request.instantiator.cls)}
        /\ fa_result.built = <<>>
        /\ fa_result.value = NoObject

\* "qux" under AbstractBar, whose descendants include an indirect one: the
\* error lists them all.
C10_Witness ==
    /\ fa_result # NotCalled
    /\ ShortRequest
    /\ RequestedVariant = S_qux
    /\ fa_request.instantiator.cls = "AbstractBar"
    /\ parent_of["BazBar"] = "FooBar"
    /\ parent_of["FooBar"] = "AbstractBar"
    /\ fa_result.error = "ReflectionError"
    /\ ClassName("BazBar") \in Range(fa_result.detail.available)
    /\ ClassName("FooBar") \in Range(fa_result.detail.available)

\* The options of the request other than "type", as create's loop sees them.
RequestOptions == DictPop(fa_request.dynamic_parameters, S_type)

\* An option of the class c whose value is a map: declared as a class to
\* build, or declared typing.Dict.
OptionIsNested(c, it) ==
    /\ it.val.t = "dict"
    /\ it.k \in DOMAIN Annotations(c)
    /\ Annotations(c)[it.k] # TDict
OptionIsRawMap(c, it) ==
    /\ it.val.t = "dict"
    /\ it.k \in DOMAIN Annotations(c)
    /\ Annotations(c)[it.k] = TDict

\* The value the constructor of the returned object received for option k.
Received(k) == DictGet(fa_result.value, k)

\* C11: when create returns, every option whose value is a map and whose
\* declared type is not typing.Dict reached the constructor as an object of
\* the declared type (the class itself or a descendant of it) built from that
\* map, its constructor having run before the outer one; a map given for a
\* typing.Dict parameter reached the constructor as the very same map.
C11_NestedConstruction ==
    (fa_result # NotCalled /\ fa_result.ok) =>
        \A n \in 1..Len(RequestOptions.items) :
            LET it == RequestOptions.items[n]
                c == fa_result.resolved
                declared == Annotations(c)[it.k].cls
            IN  /\ (OptionIsNested(c, it) /\ ~DictHas(fa_request.loaded_parameters, it.k))
                      => /\ Received(it.k).t = "object"
                         /\ \E d \in Classes :
                               /\ Received(it.k).v = ClassName(d)
                               /\ (d = declared \/ IsDescendant(d, declared))
                               /\ \E m \in 1..Len(fa_result.built) - 1 :
                                     fa_result.built[m] = d
                         /\ Received(it.k) # it.val
                /\ (OptionIsRawMap(c, it) /\ ~DictHas(fa_request.loaded_parameters, it.k))
                      => Received(it.k) = it.val

\* A FooBar built from {inner: {type: deep, depth: 1}}: the constructor got a
\* DeepQux object built with depth 1, not the map.
C11_Witness ==
    /\ fa_result # NotCalled
    /\ fa_result.ok
    /\ fa_result.resolved = "FooBar"
    /\ DictHas(RequestOptions, "inner")
    /\ DictGet(RequestOptions, "inner") = DeepSpec
    /\ Received("inner") = Object("DeepQux", Dict(<<Item("depth", Atom(S_1))>>))
    /\ fa_result.built = <<"DeepQux", "FooBar">>

\* A FooBar built from {opts: {...}}, opts declared typing.Dict: the map is
\* handed over as it is.
C11_WitnessRawMap ==
    /\ fa_result # NotCalled
    /\ fa_result.ok
    /\ fa_result.resolved = "FooBar"
    /\ DictHas(RequestOptions, "opts")
    /\ Received("opts") = DeepSpec
    /\ fa_result.built = <<"FooBar">>

\* The class create resolved for the request, "" when resolution failed: the
\* instantiator itself when the request has no "type".
ResolvedClass ==
    IF DictHas(fa_request.dynamic_parameters, S_type)
    THEN Resolve(fa_request.instantiator,
                 DictGet(fa_request.dynamic_parameters, S_type).v).cls
    ELSE fa_request.instantiator.cls

\* The option names of the request that the constructor of the resolved class
\* does not accept as a parameter.
Unaccepted ==
    {RequestOptions.items[n].k : n \in 1..Len(RequestOptions.items)}
        \ InitArgs(ResolvedClass)

\* C12: when the request carries an option name that the resolved class's
\* constructor does not accept, create fails with a ReflectionError that names
\* such an option and the class, and the class's constructor has not run; a
\* name that is only a local variable of the constructor body is such a name.
C12_UnknownParameter ==
    (fa_result # NotCalled /\ ResolvedClass # "" /\ Unaccepted # {}) =>
        /\ ~fa_result.ok
        /\ fa_result.error = "ReflectionError"
        /\ fa_result.detail.option \in Unaccepted
        /\ fa_result.detail.name = ClassName(ResolvedClass)

\* The same for the names that are in no way known to the constructor: neither
\* a parameter nor a local variable of its body. This part holds.
UnknownParameterNotEvenLocal ==
    (/\ fa_result # NotCalled /\ ResolvedClass # ""
     /\ Unaccepted \ CoVarnames(ResolvedClass) # {}) =>
        /\ ~fa_result.ok
        /\ fa_result.error = "ReflectionError"
        /\ fa_result.detail.option \in Unaccepted
        /\ fa_result.detail.name = ClassName(ResolvedClass)
        /\ \A m \in 1..Len(fa_result.built) : fa_result.built[m] # ResolvedClass

\* The request names a fully-qualified path ("module.ClassName").
DottedRequest ==
    /\ fa_request # <<>>
    /\ DictHas(fa_request.dynamic_parameters, S_type)
    /\ Contains(DictGet(fa_request.dynamic_parameters, S_type).v, ".")

\* The path of the request names no loaded module, or no class of the module.
PathMissing ==
    LET path == RSplit(DictGet(fa_request.dynamic_parameters, S_type).v)
    IN  \/ path[1] # S_p
        \/ \A c \in Classes : ClassName(c) # path[2]

\* C13: a fully-qualified path whose module or symbol does not exist makes
\* create fail with a ReflectionError, as every other resolution failure does.
C13_MissingSymbol ==
    (fa_result # NotCalled /\ DottedRequest /\ PathMissing) =>
        /\ ~fa_result.ok
        /\ fa_result.error = "ReflectionError"

\* What does hold: the call fails, nothing is built, and the error is the one
\* the import machinery or getattr raised.
MissingSymbolFails ==
    (fa_result # NotCalled /\ DottedRequest /\ PathMissing) =>
        /\ ~fa_result.ok
        /\ fa_result.built = <<>>
        /\ fa_result.error \in {"ModuleNotFoundError", "AttributeError"}

\* -------------------------------------------------------- FilePreprocessor

MaxFileSamples == 2     \* most samples of the loader of a file run
MaxRuns == 2            \* most _load_dataset runs over the same folder

\* self.input_to_use_has_filename and self.feature_to_save: parallel lists,
\* one feature saved per filename field.
input_to_use_has_filename == <<"id_a", "id_b">>
feature_to_save == <<"feat_a", "feat_b">>

\* The values sample.inputs[field] takes; two samples may share one.
FileStems == {"x", "y"}

\* self.folder_name / input_field_filename / f"{sample.inputs[field]}.pkl"
Filename(field, sample) == <<field, sample.inputs[field]>>
Filenames(sample) ==
    [k \in 1..Len(input_to_use_has_filename) |->
        Filename(input_to_use_has_filename[k], sample)]

\* A file: the pickled feature and the iteration that wrote it (run 0: the
\* file was in the folder before the first run).
FileOf(data, run, n) == [data |-> data, run |-> run, n |-> n, whole |-> TRUE]
OldFile == FileOf("old", 0, 0)

\* A file that open(filename, "wb") created or emptied and pickle.dump did
\* not finish writing.
PartFile(run, n) == [data |-> "part", run |-> run, n |-> n, whole |-> FALSE]

\* What happens on a sample besides the outcomes of preprocess: preprocess
\* returns and the value of the second feature cannot be pickled (or is not
\* among outputs.inputs), so that pickle.dump, or the lookup of its argument,
\* raises once the file is open.
FileOutcomes == Outcomes \cup {"unpicklable"}
DumpRaises(sample, k) == sample.what = "unpicklable" /\ k = 2

\* outputs.inputs[output_name] after preprocess(sample)
Feature(sample, output_name) == [of |-> sample.inputs, feature |-> output_name]

\* filename.exists()
Exists(files, filename) == filename \in DOMAIN files

\* not self.overwrite and all([filename.exists() for filename in filenames])
ShouldSkip_never(overwrite, files, filenames) == FALSE
ShouldSkip(overwrite, files, filenames) ==
    ~overwrite /\ \A k \in 1..Len(filenames) : Exists(files, filenames[k])

\* for output_name, filename in zip(self.feature_to_save, filenames):
\*     with open(filename, "wb") as file: pickle.dump(...)
\* An exception of pickle.dump leaves the loop with the file open()ed.
RECURSIVE DumpAll(_, _, _, _, _)
DumpAll(files, sample, k, run, n) ==
    IF k > Min(Len(feature_to_save), Len(input_to_use_has_filename)) THEN files
    ELSE LET filename == Filenames(sample)[k]
             content == IF DumpRaises(sample, k) THEN PartFile(run, n)
                        ELSE FileOf(Feature(sample, feature_to_save[k]), run, n)
             opened == [f \in DOMAIN files \cup {filename} |->
                           IF f = filename THEN content ELSE files[f]]
         IN  IF DumpRaises(sample, k) THEN opened
             ELSE DumpAll(opened, sample, k + 1, run, n)

FileSamples ==
    [inputs : [{input_to_use_has_filename[k] : k \in 1..Len(input_to_use_has_filename)}
                  -> FileStems],
     what : Outcomes]
AllFilenames ==
    {<<input_to_use_has_filename[k], stem>> :
        k \in 1..Len(input_to_use_has_filename), stem \in FileStems}

\* The folder before the first run: any files of earlier, possibly
\* interrupted, runs.
InitFiles ==
    /\ fp_loader \in SeqsUpTo(FileSamples, MaxFileSamples)
    /\ fp_overwrite \in BOOLEAN
    /\ \E present \in SUBSET AllFilenames : fp_files = [f \in present |-> OldFile]
    /\ fp_run = 1
    /\ fp_n = 0
    /\ fp_log = <<>>
    /\ IdleCore /\ IdleRace /\ IdleDelete /\ IdleChain /\ IdleTail

\* One iteration of the loop of FilePreprocessor._load_dataset.
FileIteration ==
    /\ fp_run >= 1
    /\ fp_n < Len(fp_loader)
    /\ LET sample == fp_loader[fp_n + 1]
           filenames == Filenames(sample)
           skip == ShouldSkip(fp_overwrite, fp_files, filenames)
           event == IF skip THEN "skipped"
                    ELSE IF sample.what = "ok" THEN "saved"
                    ELSE IF sample.what = "featurization" THEN "warning"
                    ELSE "debug"
       IN  /\ fp_files' = IF ~skip /\ sample.what \in {"ok", "unpicklable"}
                          THEN DumpAll(fp_files, sample, 1, fp_run, fp_n)
                          ELSE fp_files
           /\ fp_log' = Append(fp_log,
                               [run |-> fp_run, n |-> fp_n, overwrite |-> fp_overwrite,
                                chain |-> ~skip, event |-> event, before |-> fp_files])
    /\ fp_n' = fp_n + 1
    /\ UNCHANGED <<fp_loader, fp_overwrite, fp_run, coreVars, raceVars, deleteVars, chainVars, tailVars>>

\* The run is over; the featurize task is started again on the same dataset
\* and folder, with the overwrite flag set or not.
FileRunAgain ==
    /\ fp_run >= 1
    /\ fp_run < MaxRuns
    /\ fp_n = Len(fp_loader)
    /\ fp_run' = fp_run + 1
    /\ fp_n' = 0
    /\ fp_overwrite' \in BOOLEAN
    /\ UNCHANGED <<fp_loader, fp_files, fp_log, coreVars, raceVars, deleteVars, chainVars, tailVars>>

NextFiles == FileIteration \/ FileRunAgain

SpecFiles == InitFiles /\ [][NextFiles]_vars

\* The folder after the iteration logged at position i.
FilesAfter(i) == IF i < Len(fp_log) THEN fp_log[i + 1].before ELSE fp_files

\* The target files of the sample of loop index n.
Targets(n) == Range(Filenames(fp_loader[n + 1]))

\* The log entries of run r; the run is over when it has one per sample.
EntriesOf(r) == {i \in 1..Len(fp_log) : fp_log[i].run = r}
RunOver(r) == Cardinality(EntriesOf(r)) = Len(fp_loader)
AllSucceeded(r) ==
    RunOver(r) /\ \A i \in EntriesOf(r) : fp_log[i].event \in {"saved", "skipped"}

\* With the overwrite flag unset, an iteration on a sample whose target files
\* all exist does not run the chain and leaves the folder as it was.
SkipsExisting ==
    \A i \in 1..Len(fp_log) :
        (/\ ~fp_log[i].overwrite
         /\ \A f \in Targets(fp_log[i].n) : Exists(fp_log[i].before, f))
            => ~fp_log[i].chain /\ FilesAfter(i) = fp_log[i].before

\* A run with the flag unset that follows a run in which every sample
\* succeeded runs the chain on no sample and changes no file.
SecondRunIdle ==
    \A i \in 1..Len(fp_log) :
        (fp_log[i].run >= 2 /\ ~fp_log[i].overwrite /\ AllSucceeded(fp_log[i].run - 1))
            => ~fp_log[i].chain /\ FilesAfter(i) = fp_log[i].before

\* The iteration logged at position i wrote every target file of its sample.
Rewrote(i) ==
    \A f \in Targets(fp_log[i].n) :
        /\ Exists(FilesAfter(i), f)
        /\ FilesAfter(i)[f].run = fp_log[i].run
        /\ FilesAfter(i)[f].n = fp_log[i].n

\* C14 as stated: skip-if-exists with the flag unset, an idle second run, and
\* with the flag set every sample is processed and its files are rewritten.
C14_SkipIfExists ==
    /\ SkipsExisting
    /\ SecondRunIdle
    /\ \A i \in 1..Len(fp_log) :
          fp_log[i].overwrite => fp_log[i].chain /\ Rewrote(i)

\* C14, amended: with the flag set the chain runs on every sample; the files
\* of a sample whose chain succeeds are rewritten, and a sample whose chain
\* raises leaves the folder as it was.
C14_SkipIfExistsOrFailed ==
    /\ SkipsExisting
    /\ SecondRunIdle
    /\ \A i \in 1..Len(fp_log) :
          fp_log[i].overwrite =>
            /\ fp_log[i].chain
            /\ fp_loader[fp_log[i].n + 1].what = "ok" => Rewrote(i)
            /\ fp_loader[fp_log[i].n + 1].what \in {"featurization", "other"}
                  => FilesAfter(i) = fp_log[i].before

\* Two runs with the flag unset over two samples with different files, into
\* an empty folder: the first saves both, the second skips both and the
\* files are still those of the first run.
C14_Witness ==
    /\ Len(fp_loader) = 2
    /\ Targets(0) \cap Targets(1) = {}
    /\ RunOver(2)
    /\ \A i \in EntriesOf(1) : fp_log[i].event = "saved" /\ ~fp_log[i].overwrite
    /\ fp_log[1].before = <<>>
    /\ \A i \in EntriesOf(2) : fp_log[i].event = "skipped"
    /\ \A f \in DOMAIN fp_files : fp_files[f].run = 1

\* The runs on an empty folder, first with the overwrite flag unset, over
\* samples of which some cannot be serialized.
ResumeSamples ==
    [inputs : [{input_to_use_has_filename[k] : k \in 1..Len(input_to_use_has_filename)}
                  -> FileStems],
     what : FileOutcomes]
InitResume ==
    /\ fp_loader \in SeqsUpTo(ResumeSamples, MaxFileSamples)
    /\ fp_overwrite = FALSE
    /\ fp_files = <<>>
    /\ fp_run = 1
    /\ fp_n = 0
    /\ fp_log = <<>>
    /\ IdleCore /\ IdleRace /\ IdleDelete /\ IdleChain /\ IdleTail

SpecResume == InitResume /\ [][NextFiles]_vars

\* Every target file of the sample of loop index n is in the folder and
\* whole.
Produced(files, n) ==
    \A f \in Targets(n) : Exists(files, f) /\ files[f].whole

\* C27: whatever failed during the transform or the serialization, every
\* file in the folder holds a completely serialized value, so that a run
\* with the overwrite flag unset skips no sample whose output was not
\* produced.
C27_Resumable ==
    /\ \A f \in DOMAIN fp_files : fp_files[f].whole
    /\ \A i \in 1..Len(fp_log) :
          fp_log[i].event = "skipped" => Produced(fp_log[i].before, fp_log[i].n)

\* A run skipped a sample whose output is not in the folder, whole.
SkippedUnproduced ==
    \E i \in 1..Len(fp_log) :
        fp_log[i].event = "skipped" /\ ~Produced(fp_log[i].before, fp_log[i].n)

\* As long as no serialization has failed, every file is whole and every
\* skipped sample has its output.
ResumableWithoutDumpFailure ==
    (\A k \in 1..Len(fp_loader) : fp_loader[k].what # "unpicklable") =>
        /\ \A f \in DOMAIN fp_files : fp_files[f].whole
        /\ \A i \in 1..Len(fp_log) :
              fp_log[i].event = "skipped" => Produced(fp_log[i].before, fp_log[i].n)

\* ------------------------------- cached operations of concurrent processes

MaxProcs == 2       \* processes sharing the cache directory

\* What the processor of process p returns, and the content of a file that
\* torch.save has opened for writing and not finished: open(path, "wb")
\* creates or truncates the file, the pickled bytes follow.
ResultOf(p) == <<"result", p>>
Truncated == <<"truncated", 0>>

\* The steps of execute_cached_operation after the processor has run: save
\* its result when it returned, let the exception through when it raised.
AfterProcessor_save_anyway(processor_raises) == "save"
AfterProcessor(processor_raises) == IF processor_raises THEN "raised" ELSE "save"

Digest(p) == key(ce_procs[p].cache_key)

InitRace ==
    /\ store = NoFiles
    /\ ce_procs \in [1..MaxProcs ->
                       [cache_key : {CacheKeyAB, CacheKeyA}, clear_cache : BOOLEAN,
                        processor_raises : BOOLEAN, pc : {"start"}, found : {FALSE},
                        invoked : {FALSE}, loaded : {FALSE}, ret : {<<>>}, error : {""}]]
    /\ calls = <<>>
    /\ IdleChunks /\ IdlePipe /\ IdleKey /\ IdleAug /\ IdleFactory /\ IdleFiles /\ IdleDelete
    /\ IdleChain /\ IdleTail

RaceFrame ==
    UNCHANGED <<calls, chunkVars, pipeVars, keyVars, augVars, factoryVars, fileVars,
                deleteVars, chainVars, tailVars>>

\* if clear_cache: self.delete(key)
RaceClear(p) ==
    /\ ce_procs[p].pc = "start"
    /\ store' = IF ce_procs[p].clear_cache THEN delete(store, Digest(p)) ELSE store
    /\ ce_procs' = [ce_procs EXCEPT ![p].pc = "check"]
    /\ RaceFrame

\* if self.has(key): ...
RaceHas(p) ==
    /\ ce_procs[p].pc = "check"
    /\ ce_procs' = [ce_procs EXCEPT ![p].found = has(store, Digest(p)),
                                     ![p].pc = IF has(store, Digest(p)) THEN "load"
                                               ELSE "process"]
    /\ UNCHANGED store
    /\ RaceFrame

\* return self.load(key): torch.load raises on a file that is gone, and on a
\* file whose bytes are not all there.
RaceLoad(p) ==
    /\ ce_procs[p].pc = "load"
    /\ ce_procs' =
          IF ~has(store, Digest(p))
          THEN [ce_procs EXCEPT ![p].pc = "raised", ![p].loaded = TRUE,
                                ![p].error = "FileNotFoundError"]
          ELSE IF load(store, Digest(p)) = Truncated
          THEN [ce_procs EXCEPT ![p].pc = "raised", ![p].loaded = TRUE,
                                ![p].error = "truncated"]
          ELSE [ce_procs EXCEPT ![p].pc = "returned", ![p].loaded = TRUE,
                                ![p].ret = load(store, Digest(p))]
    /\ UNCHANGED store
    /\ RaceFrame

\* content = processor(**arguments)
RaceProcess(p) ==
    /\ ce_procs[p].pc = "process"
    /\ ce_procs' = [ce_procs EXCEPT
                       ![p].invoked = TRUE,
                       ![p].pc = AfterProcessor(ce_procs[p].processor_raises),
                       ![p].error = IF AfterProcessor(ce_procs[p].processor_raises) = "raised"
                                    THEN "processor" ELSE ""]
    /\ UNCHANGED store
    /\ RaceFrame

\* self.save(content, key), first half: torch.save opens the file.
RaceSaveOpen(p) ==
    /\ ce_procs[p].pc = "save"
    /\ store' = save(store, Truncated, Digest(p))
    /\ ce_procs' = [ce_procs EXCEPT ![p].pc = "write"]
    /\ RaceFrame

\* self.save(content, key), second half: the bytes are written and the file
\* closed; a file removed in the meantime stays removed. Then return content.
RaceSaveWrite(p) ==
    /\ ce_procs[p].pc = "write"
    /\ store' = IF has(store, Digest(p)) THEN save(store, ResultOf(p), Digest(p))
                 ELSE store
    /\ ce_procs' = [ce_procs EXCEPT ![p].pc = "returned", ![p].ret = ResultOf(p)]
    /\ RaceFrame

NextRace ==
    \E p \in 1..MaxProcs :
        \/ RaceClear(p)
        \/ RaceHas(p)
        \/ RaceLoad(p)
        \/ RaceProcess(p)
        \/ RaceSaveOpen(p)
        \/ RaceSaveWrite(p)

SpecRace == InitRace /\ [][NextRace]_vars

\* Process q ran its processor to the end and went on to save the result.
CompletedRun(q) ==
    /\ ce_procs[q].invoked
    /\ ~ce_procs[q].processor_raises
    /\ ce_procs[q].pc \in {"write", "returned"}

\* C15: an entry exists under a digest only if a processor run for that
\* digest completed; a call whose processor raised has saved nothing, so with
\* no completed run of another process for its digest there is no entry under
\* the digest.
C15_NoPartialEntries ==
    /\ \A d \in DOMAIN store :
          \E q \in 1..MaxProcs : Digest(q) = d /\ CompletedRun(q)
    /\ \A p \in 1..MaxProcs :
          (/\ ce_procs[p].pc = "raised" /\ ce_procs[p].error = "processor"
           /\ \A q \in 1..MaxProcs : Digest(q) = Digest(p) => ~CompletedRun(q))
              => ~has(store, Digest(p))

\* A call whose processor raised after it had cleared the entry another call
\* had saved under the same digest: the digest has no entry any more, the
\* failed run left none.
C15_Witness ==
    \E p, q \in 1..MaxProcs :
        /\ p # q
        /\ Digest(p) = Digest(q)
        /\ ce_procs[q].pc = "returned" /\ ce_procs[q].invoked
        /\ ce_procs[p].clear_cache
        /\ ce_procs[p].pc = "raised" /\ ce_procs[p].error = "processor"
        /\ ~has(store, Digest(p))

\* C16: a process that saw has(digest) = true and then loads gets a complete
\* value that a processor run saved, never a partially written file.
C16_NoCorruptRead ==
    \A p \in 1..MaxProcs :
        ce_procs[p].loaded =>
            /\ ce_procs[p].error # "truncated"
            /\ ce_procs[p].pc = "returned" =>
                  \E q \in 1..MaxProcs :
                      ce_procs[p].ret = ResultOf(q) /\ CompletedRun(q)

\* What holds: a load that returns, returns a complete value that a completed
\* processor run of the same digest saved.
ReturnedLoadsAreComplete ==
    \A p \in 1..MaxProcs :
        (ce_procs[p].loaded /\ ce_procs[p].pc = "returned") =>
            \E q \in 1..MaxProcs :
                /\ ce_procs[p].ret = ResultOf(q)
                /\ Digest(q) = Digest(p)
                /\ CompletedRun(q)

\* ------------------------------------------------------ CacheManager.delete

\* The digests of the entries a cache directory may hold, and the directories:
\* every digest absent or holding one of the results.
CacheKeyB == Dict(<<Item("b", Atom(<<"x">>))>>)
Digests == {key(k) : k \in CacheKeys \cup {CacheKeyB}}
Stores ==
    UNION {[present -> {Pickle(r) : r \in Results}] : present \in SUBSET Digests}

InitDelete ==
    /\ store \in Stores
    /\ del_call = NotCalled
    /\ calls = <<>>
    /\ IdleChunks /\ IdlePipe /\ IdleKey /\ IdleAug /\ IdleFactory
    /\ IdleFiles /\ IdleRace /\ IdleChain /\ IdleTail

\* One call of CacheManager.delete(key); it returns None, a missing file
\* included (FileNotFoundError is caught).
CallDelete ==
    /\ del_call = NotCalled
    /\ \E k \in Digests :
          /\ store' = delete(store, k)
          /\ del_call' = [key |-> k, before |-> store, error |-> ""]
    /\ UNCHANGED <<calls, chunkVars, pipeVars, keyVars, augVars, factoryVars, fileVars,
                   raceVars, chainVars, tailVars>>

NextDelete == CallDelete

SpecDelete == InitDelete /\ [][NextDelete]_vars

\* C17: delete on a digest without entry raises nothing and leaves the store
\* as it was; delete on a digest with an entry removes that entry, so that
\* has(digest) is false, and every other entry is still there, unchanged.
C17_DeleteFrame ==
    del_call # NotCalled =>
        /\ del_call.error = ""
        /\ ~has(del_call.before, del_call.key) => store = del_call.before
        /\ has(del_call.before, del_call.key) =>
              /\ ~has(store, del_call.key)
              /\ DOMAIN store = DOMAIN del_call.before \ {del_call.key}
              /\ \A f \in DOMAIN store : store[f] = del_call.before[f]

\* delete of an entry of a directory that holds two more: the entry is gone,
\* the two others are there.
C17_Witness ==
    /\ del_call # NotCalled
    /\ has(del_call.before, del_call.key)
    /\ Cardinality(DOMAIN del_call.before) = 3
    /\ Cardinality(DOMAIN store) = 2
    /\ ~has(store, del_call.key)

\* ------------------------------------------------------ the transform chain

MaxChain == 2       \* most featurizers, and most transformers, configured

\* The stage types a configuration may name; a type may be listed twice.
FeaturizerNames == {"f1", "f2"}
TransformerNames == {"t1", "t2", "t3"}

\* A sample is the sequence of stage operations that shaped it, oldest first.
\* featurizer.run and transformer.apply add their mark. transformer.reverse
\* undoes the apply of its own transformer when that is the latest operation
\* on the sample; on any other sample it leaves a mark of its own.
Run(featurizer, sample) == Append(sample, [op |-> "run", stage |-> featurizer])
Apply(transformer, sample) == Append(sample, [op |-> "apply", stage |-> transformer])
Reverse(transformer, sample) ==
    IF sample # <<>> /\ sample[Len(sample)] = [op |-> "apply", stage |-> transformer]
    THEN SubSeq(sample, 1, Len(sample) - 1)
    ELSE Append(sample, [op |-> "reverse", stage |-> transformer])

\* reversed(self._transformers)
reversed_same(list) == list
reversed(list) == [n \in 1..Len(list) |-> list[Len(list) + 1 - n]]

\* for featurizer in self._featurizers: featurizer.run(sample)
RECURSIVE _featurize(_, _)
_featurize(featurizers, sample) ==
    IF featurizers = <<>> THEN sample
    ELSE _featurize(Tail(featurizers), Run(Head(featurizers), sample))

\* for transformer in self._transformers: transformer.apply(sample)
RECURSIVE _apply_transformers(_, _)
_apply_transformers(transformers, sample) ==
    IF transformers = <<>> THEN sample
    ELSE _apply_transformers(Tail(transformers), Apply(Head(transformers), sample))

\* for transformer in reversed(self._transformers): transformer.reverse(sample)
RECURSIVE ReverseEach(_, _)
ReverseEach(transformers, sample) ==
    IF transformers = <<>> THEN sample
    ELSE ReverseEach(Tail(transformers), Reverse(Head(transformers), sample))
reverse_transformers(transformers, sample) == ReverseEach(reversed(transformers), sample)

\* AbstractPreprocessor.preprocess
preprocess(featurizers, transformers, sample) ==
    _apply_transformers(transformers, _featurize(featurizers, sample))

InitChain ==
    /\ ch_featurizers \in SeqsUpTo(FeaturizerNames, MaxChain)
    /\ ch_transformers \in SeqsUpTo(TransformerNames, MaxChain)
    /\ ch_sample = <<>>
    /\ ch_pc = "raw"
    /\ IdleCore /\ IdleFiles /\ IdleRace /\ IdleDelete /\ IdleTail

\* sample = self.preprocess(sample)
CallPreprocess ==
    /\ ch_pc = "raw"
    /\ ch_sample' = preprocess(ch_featurizers, ch_transformers, ch_sample)
    /\ ch_pc' = "preprocessed"
    /\ UNCHANGED <<ch_featurizers, ch_transformers, coreVars, fileVars, raceVars, deleteVars,
                   tailVars>>

\* self.reverse_transformers(sample) on a preprocessed sample
CallReverseTransformers ==
    /\ ch_pc = "preprocessed"
    /\ ch_sample' = reverse_transformers(ch_transformers, ch_sample)
    /\ ch_pc' = "reversed"
    /\ UNCHANGED <<ch_featurizers, ch_transformers, coreVars, fileVars, raceVars, deleteVars,
                   tailVars>>

NextChain == CallPreprocess \/ CallReverseTransformers

SpecChain == InitChain /\ [][NextChain]_vars

\* The marks that the stages of a list leave when each acts once, in the
\* order of the list.
Marks(op, stages) == [n \in 1..Len(stages) |-> [op |-> op, stage |-> stages[n]]]

\* C18: a preprocessed sample has been through every featurizer in declared
\* order and only then through every transformer in declared order;
\* reverse_transformers on it undoes every transformer, which takes the
\* reverse of the declared order, and gives back the featurized sample.
C18_ChainOrder ==
    /\ ch_pc = "preprocessed" =>
          ch_sample = Marks("run", ch_featurizers) \o Marks("apply", ch_transformers)
    /\ ch_pc = "reversed" => ch_sample = Marks("run", ch_featurizers)

\* Two featurizers and two different transformers: after the reversal the
\* sample carries the two featurizer marks only.
C18_Witness ==
    /\ ch_pc = "reversed"
    /\ Len(ch_featurizers) = 2
    /\ Len(ch_transformers) = 2
    /\ ch_transformers[1] # ch_transformers[2]
    /\ ch_sample = Marks("run", ch_featurizers)

\* ------------------------------------- exceptions in the parallel pipeline

\* The samples of chunk w that the worker has been through, as positions.
Enumerated(w) == 1..futures[w].n

\* C19: an exception other than FeaturizationError raised by the transform
\* of a sample is logged once as an error and the sample is dropped; the
\* worker goes on with the next sample, so that a task that returns has been
\* through its whole chunk and holds the later samples that did not raise; no
\* task has failed other than by an exception from outside the per-sample
\* try block.
C19_OtherExceptionContained ==
    \A w \in 1..Len(futures) :
        LET chunk == chunks.chunks[w]
        IN  /\ \A k \in Enumerated(w) :
                  outcome[chunk[k]] = "other" =>
                    /\ Count(futures[w].log, [level |-> "error", id_ |-> chunk[k]]) = 1
                    /\ \A m \in 1..Len(futures[w].dataset) :
                          futures[w].dataset[m].id_ # chunk[k]
            /\ futures[w].state = "failed" => futures[w].failure = "infrastructure"
            /\ futures[w].state = "done" =>
                  /\ futures[w].n = Len(chunk)
                  /\ \A k \in 1..Len(chunk) :
                        outcome[chunk[k]] = "ok" =>
                            Count(futures[w].dataset, Preprocess(chunk[k])) = 1

\* A task that returned from a chunk whose first sample raised another
\* exception and whose second sample was fine: one error logged, the second
\* sample in the output.
C19_Witness ==
    \E w \in 1..Len(futures) :
        /\ futures[w].state = "done"
        /\ Len(chunks.chunks[w]) >= 2
        /\ outcome[chunks.chunks[w][1]] = "other"
        /\ outcome[chunks.chunks[w][2]] = "ok"
        /\ futures[w].log = <<[level |-> "error", id_ |-> chunks.chunks[w][1]]>>
        /\ futures[w].dataset = <<Preprocess(chunks.chunks[w][2])>>

\* C20: when a worker task has failed, _run_parrallel does not return: once
\* the polling loop is left the exception leaves the method, and no merged
\* dataset exists, the results of the tasks that returned included.
C20_WorkerFailureAborts ==
    /\ co_pc = "done" => \A w \in 1..Len(futures) : futures[w].state = "done"
    /\ (\E w \in 1..Len(futures) : futures[w].state = "failed") =>
          /\ co_pc \in {"polling", "raised"}
          /\ merged = <<>>
    /\ co_pc = "raised" =>
          /\ \E w \in 1..Len(futures) : futures[w].state = "failed"
          /\ merged = <<>>

\* The method has raised with one task failed and another returned with a
\* sample in its dataset: nothing was merged.
C20_Witness ==
    /\ co_pc = "raised"
    /\ merged = <<>>
    /\ \E v, w \in 1..Len(futures) :
          /\ futures[v].state = "failed"
          /\ futures[w].state = "done"
          /\ futures[w].dataset # <<>>

\* ------------------------------------------- the caller's parameter map

\* C28: after create has returned or raised, the map the caller passed is
\* what it was, at every nesting level: the "type" entry and the raw nested
\* maps are still in it, so that a second create from the same map gives what
\* the first gave.
C28_CallerMapUnchanged ==
    fa_result # NotCalled =>
        /\ fa_after = fa_request.dynamic_parameters
        /\ create(fa_request.instantiator, fa_after, fa_request.loaded_parameters)
              = fa_result

\* A call that popped a "type" entry, built a nested object from a nested
\* map with its own "type" entry, and returned: the caller's map still has
\* both entries and the nested map.
C28_Witness ==
    /\ fa_result # NotCalled
    /\ fa_result.ok
    /\ Len(fa_result.built) = 2
    /\ DictHas(fa_request.dynamic_parameters, S_type)
    /\ DictHas(fa_request.dynamic_parameters, "inner")
    /\ DictGet(fa_request.dynamic_parameters, "inner") = DeepSpec
    /\ DictGet(fa_after, "inner") = DeepSpec
    /\ DictHas(fa_after, S_type)

\* ------------------------------------------------- the polling loop

\* What a worker task of number w does next: an iteration, its return, or
\* its failure.
WorkerRuns(w) ==
    /\ w \in 1..Len(futures)
    /\ (WorkerStep(w) \/ WorkerReturn(w) \/ WorkerFail(w))

\* The runs of the in-memory merge path in which no sample raises anything
\* but FeaturizationError: neither the merge path nor the kind of a
\* contained exception bears on the loop.
InitLive ==
    /\ InitPipe
    /\ use_disk = FALSE
    /\ \A idx \in DOMAIN outcome : outcome[idx] # "other"

\* The pipeline with its processes scheduled: the executor runs every
\* submitted task until it is done, and the coordinator, which does nothing
\* but poll, goes round its loop and on from it. There are no more tasks
\* than samples.
SpecLive ==
    /\ InitLive /\ [][Next]_vars
    /\ \A w \in 1..MaxSamples : WF_vars(WorkerRuns(w))
    /\ WF_vars(Poll)
    /\ WF_vars(Merge)

\* Every submitted task is done, and the coordinator has counted them all.
AllTasksDone ==
    /\ \A w \in 1..Len(futures) : futures[w].state \in {"done", "failed"}
    /\ n_finished = Len(futures)
LoopLeft == co_pc \in {"done", "raised"}

PollSafety ==
    /\ (LoopLeft \/ merged # <<>>) => AllTasksDone
    /\ co_pc = "polling" => Len(futures) = Len(chunks.chunks)

\* C24: the coordinator is past the polling loop only when every submitted
\* task is done, succeeded or failed, and holds no result before that; one
\* task per chunk is submitted before the first round of the loop and none
\* after; and with every task eventually completing, the loop is eventually
\* left.
C24_PollLoop ==
    /\ []PollSafety
    /\ [][co_pc = "polling" => Len(futures') = Len(futures)]_vars
    /\ (co_pc = "polling" ~> LoopLeft)

\* The loop was left over three tasks, the last of which completed first,
\* and their results were collected.
C24_Witness ==
    /\ co_pc = "done"
    /\ Len(futures) = 3
    /\ first_done = 3
    /\ n_finished = 3
    /\ Len(merged) >= 2

\* ------------------------------------------------------ the progress map

\* The entries of the map: one per task that has been through a sample,
\* under the task's own id, counting the samples the task has been through
\* out of the length of its chunk.
ProgressEntries ==
    /\ DOMAIN progress \subseteq 1..Len(futures)
    /\ \A t \in 1..Len(futures) :
          /\ t \in DOMAIN progress <=> futures[t].n >= 1
          /\ t \in DOMAIN progress =>
                /\ progress[t].total = Len(chunks.chunks[t])
                /\ progress[t].progress = futures[t].n
                /\ 1 <= progress[t].progress
                /\ progress[t].progress <= progress[t].total
          /\ futures[t].state = "done" =>
                /\ t \in DOMAIN progress
                /\ progress[t].progress = progress[t].total

\* What a step does to the map: no entry goes, at most one entry is written,
\* by the iteration of the task of that id and not by the coordinator, and
\* the written entry counts one more than before.
ProgressStep ==
    LET written == {t \in DOMAIN progress' :
                       t \notin DOMAIN progress \/ progress'[t] # progress[t]}
    IN  /\ DOMAIN progress \subseteq DOMAIN progress'
        /\ Cardinality(written) <= 1
        /\ \A t \in written :
              /\ futures'[t].n = futures[t].n + 1
              /\ \A u \in 1..Len(futures) \ {t} : futures'[u] = futures[u]
              /\ progress'[t].progress =
                    (IF t \in DOMAIN progress THEN progress[t].progress ELSE 0) + 1
              /\ co_pc' = co_pc /\ n_finished' = n_finished /\ merged' = merged
        /\ (co_pc' # co_pc \/ n_finished' # n_finished \/ merged' # merged) =>
              progress' = progress

\* C25: under every interleaving of the workers and the coordinator, a
\* worker writes the entry of its own task id only and the coordinator
\* writes none; every entry has 1 <= progress <= total = the length of the
\* worker's chunk; progress never decreases and goes up by one with every
\* sample, dropped ones included; and it equals total once the worker has
\* returned.
C25_ProgressMap == []ProgressEntries /\ [][ProgressStep]_vars

\* A task has returned from a chunk of three samples, the second of which
\* was dropped, while the coordinator polled in between: its entry reads 3
\* of 3.
C25_Witness ==
    \E w \in 1..Len(futures) :
        /\ futures[w].state = "done"
        /\ Len(chunks.chunks[w]) = 3
        /\ outcome[chunks.chunks[w][2]] # "ok"
        /\ Len(futures[w].dataset) = 2
        /\ progress[w] = [progress |-> 3, total |-> 3]
        /\ n_finished = 1

\* ------------------------------------- the cached strategy, end to end

\* A CachePreprocessor on a loader of dataset_len samples, before
\* _load_dataset; the static augmentations will produce aug_datasets.
InitCached ==
    /\ dataset_len \in 1..MaxSamples
    /\ n_jobs = 1 /\ chunks = NotRun
    /\ outcome \in [0..dataset_len - 1 -> Outcomes]
    /\ use_disk = FALSE /\ co_pc = "idle" /\ futures = <<>> /\ progress = <<>>
    /\ n_finished = 0 /\ first_done = 0 /\ merged = <<>>
    /\ aug_mode = "cache"
    /\ dataset_size = 0
    /\ aug_datasets \in SeqsUpTo(AugDatasets("cache"), MaxStages)
    /\ aug_pc = "new"
    /\ IdleKey /\ IdleCache /\ IdleFactory
    /\ IdleFiles /\ IdleRace /\ IdleDelete /\ IdleChain /\ IdleTail

\* CachePreprocessor._load_dataset with nothing cached: _prepare_dataset
\* returns the samples that came through the chain, which keep their id_,
\* in loader order, and dataset_size is their number.
CachedLoadDataset ==
    /\ aug_pc = "new"
    /\ merged' = SequentialRun(NewTask, 0).dataset
    /\ dataset_size' = Len(merged')
    /\ aug_pc' = "start"
    /\ UNCHANGED <<chunkVars, outcome, use_disk, co_pc, futures, progress, n_finished,
                   first_done, aug_mode, aug_datasets, keyVars, cacheVars, factoryVars,
                   fileVars, raceVars, deleteVars, chainVars, tailVars>>

NextCached == CachedLoadDataset \/ LoadAugmentedDataCache \/ AddStaticAugDataset

SpecCached == InitCached /\ [][NextCached]_vars

\* The id_ of the samples of the returned dataset that come from the base
\* dataset, and of those that the stages made.
BaseIds == {merged[k].id_ : k \in 1..Len(merged)}
SyntheticIds ==
    UNION {Range(aug_datasets[n].ids) : n \in 1..Len(aug_datasets)}

\* C26: in the dataset the cached strategy returns, no synthetic sample has
\* the identifier of a base sample, also when base samples were dropped.
C26_UniqueIds ==
    aug_merged.merged => BaseIds \cap SyntheticIds = {}

\* With no base sample dropped the identifiers are apart.
UniqueIdsWhenNoneDropped ==
    (aug_merged.merged /\ dataset_size = dataset_len) => BaseIds \cap SyntheticIds = {}

\* ------------------------------------------- find_descendants on its own

\* The hierarchies with module "q" imported: its FooBar extends "object" or
\* one of the classes of the Bar family.
LoadedHierarchies ==
    {[c \in DOMAIN h \cup {OtherFooBar} |-> IF c = OtherFooBar THEN o ELSE h[c]] :
        h \in Hierarchies, o \in {"object", "AbstractBar", "FooBar", "BazBar", "FooBazBar"}}

InitDescendants ==
    /\ parent_of \in LoadedHierarchies
    /\ fa_request = <<>> /\ fa_result = <<>> /\ fa_after = <<>>
    /\ fd_call = <<>>
    /\ IdleChunks /\ IdlePipe /\ IdleKey /\ IdleCache /\ IdleAug
    /\ IdleFiles /\ IdleRace /\ IdleDelete /\ IdleChain /\ IdleLoad /\ IdleMerge

\* One call of SuperFactory.find_descendants, to its return.
FindDescendants ==
    /\ fd_call = <<>>
    /\ \E parent \in DOMAIN parent_of :
          fd_call' = [parent |-> parent, descendants |-> find_descendants(parent)]
    /\ UNCHANGED <<chunkVars, pipeVars, keyVars, cacheVars, augVars, factoryVars,
                   fileVars, raceVars, deleteVars, chainVars, loadVars, mergeVars>>

NextDescendants == FindDescendants

SpecDescendants == InitDescendants /\ [][NextDescendants]_vars

\* The keys of the returned mapping are exactly the names of the direct and
\* indirect descendants of the parent, no key twice.
KeysAreDescendantNames ==
    LET d == fd_call.descendants
    IN  /\ Range(DictKeys(d)) = {ClassName(c) : c \in Descendants(fd_call.parent)}
        /\ \A m, n \in 1..Len(d.items) : d.items[m].k = d.items[n].k => m = n

\* C23 as stated: find_descendants returns, and the keys of what it returns
\* are exactly the names of all direct and indirect descendants of the
\* parent, each descendant's name mapped to that descendant.
C23_DescendantsOwnType ==
    fd_call # <<>> =>
        /\ KeysAreDescendantNames
        /\ \A c \in Descendants(fd_call.parent) :
              DictGet(fd_call.descendants, ClassName(c)) = c

\* C23 amended: find_descendants returns, and the keys of what it returns
\* are exactly the names of all direct and indirect descendants of the
\* parent (the parent excluded); every key is mapped to a descendant of
\* that name, and a descendant whose name no other descendant has is mapped
\* to from its name.
C23_DescendantsByName ==
    fd_call # <<>> =>
        LET d == fd_call.descendants
            D == Descendants(fd_call.parent)
        IN  /\ KeysAreDescendantNames
            /\ fd_call.parent \notin D
            /\ \A n \in 1..Len(d.items) :
                  d.items[n].val \in D /\ ClassName(d.items[n].val) = d.items[n].k
            /\ \A c \in D :
                  (\A e \in D \ {c} : ClassName(e) # ClassName(c))
                      => DictGet(d, ClassName(c)) = c

\* AbstractBar with an indirect descendant and two descendants called
\* FooBar: the key FooBar is mapped to one of the two, and the other is
\* not a value of the mapping.
C23_Witness ==
    /\ fd_call # <<>>
    /\ fd_call.parent = "AbstractBar"
    /\ parent_of["FooBar"] = "AbstractBar"
    /\ parent_of["BazBar"] = "FooBar"
    /\ parent_of[OtherFooBar] = "BazBar"
    /\ DictGet(fd_call.descendants, ClassName("BazBar")) = "BazBar"
    /\ DictGet(fd_call.descendants, ClassName("FooBar")) \in {"FooBar", OtherFooBar}
    /\ Len(fd_call.descendants.items) < Cardinality(Descendants("AbstractBar"))

\* ------------------------------------- CachePreprocessor._load_dataset runs

MaxLoads == 2       \* _load_dataset runs on one cache directory

\* What a configuration may hold for the loader, the featurizers and the
\* transformers (lists of specs), and the modification times of the source.
LoaderSpecs ==
    {Dict(<<Item("type", Atom(<<"c", "s", "v">>)), Item("input_path", Atom(path))>>) :
        path \in {<<"p">>, <<"q">>}}
FeaturizerSpecs ==
    {List(<<Dict(<<Item("type", Atom(name))>>)>>) : name \in {<<"g">>, <<"h">>}}
TransformerSpecs ==
    {List(<<>>), List(<<Dict(<<Item("type", Atom(<<"l", "o", "g">>))>>)>>)}
ModificationTimes == {Atom(<<"1">>), Atom(<<"2">>)}
LoadConfigs ==
    [loader : LoaderSpecs, featurizers : FeaturizerSpecs,
     transformers : TransformerSpecs, last_modified : ModificationTimes]

\* The cache_key argument of _load_dataset.
LoadCacheKey(config) ==
    Dict(<<Item("loader", config.loader),
           Item("featurizers", config.featurizers),
           Item("transformers", config.transformers),
           Item("last_modified", config.last_modified)>>)

\* What _prepare_dataset returns in the run of number n: the dataset that
\* run featurized.
PreparedDataset(n) == <<"dataset", n>>

InitLoad ==
    /\ store = NoFiles
    /\ ld_runs = <<>>
    /\ calls = <<>>
    /\ IdleChunks /\ IdlePipe /\ IdleKey /\ IdleAug /\ IdleFactory
    /\ IdleFiles /\ IdleRace /\ IdleDelete /\ IdleChain /\ IdleMerge /\ IdleDesc

\* One run of CachePreprocessor._load_dataset: the cached operation around
\* _prepare_dataset, keyed on the configuration and the modification time.
LoadDataset ==
    /\ Len(ld_runs) < MaxLoads
    /\ \E config \in LoadConfigs, clear_cache \in BOOLEAN :
          LET out == ExecuteCachedOperation(store, PreparedDataset(Len(ld_runs) + 1),
                                            clear_cache, LoadCacheKey(config))
          IN  /\ store' = out.store
              /\ ld_runs' = Append(ld_runs,
                                   [config |-> config, clear_cache |-> clear_cache,
                                    digest |-> key(LoadCacheKey(config)),
                                    invoked |-> out.invoked, dataset |-> out.ret])
    /\ UNCHANGED <<calls, chunkVars, pipeVars, keyVars, augVars, factoryVars, fileVars,
                   raceVars, deleteVars, chainVars, mergeVars, descVars>>

NextLoad == LoadDataset

SpecLoad == InitLoad /\ [][NextLoad]_vars

\* The configurations of two runs agree in everything the key is built from,
\* or differ in more than the order of the items of a dict.
SameConfig(i, j) == ld_runs[i].config = ld_runs[j].config
OtherConfig(i, j) ==
    ~SameUpToKeyOrder(LoadCacheKey(ld_runs[i].config), LoadCacheKey(ld_runs[j].config))

\* C21: two runs with identical loader, featurizer and transformer specs and
\* the same modification time have the same digest, and the later one, unless
\* told to clear the cache, does not run _prepare_dataset and returns the
\* dataset of the run before it; runs that differ in one of the specs or in
\* the modification time have different digests, so a run unlike every
\* earlier one runs _prepare_dataset and returns its own dataset.
C21_FingerprintInvalidation ==
    \A j \in 1..Len(ld_runs) :
        /\ \A i \in 1..j - 1 :
              /\ SameConfig(i, j) => ld_runs[i].digest = ld_runs[j].digest
              /\ OtherConfig(i, j) => ld_runs[i].digest # ld_runs[j].digest
        /\ (j > 1 /\ SameConfig(j - 1, j) /\ ~ld_runs[j].clear_cache) =>
              /\ ~ld_runs[j].invoked
              /\ ld_runs[j].dataset = ld_runs[j - 1].dataset
        /\ (\A i \in 1..j - 1 : OtherConfig(i, j)) =>
              /\ ld_runs[j].invoked
              /\ ld_runs[j].dataset = PreparedDataset(j)

\* Two runs that differ in the modification time only: the second one ran
\* _prepare_dataset again and both datasets are cached.
C21_Witness ==
    /\ Len(ld_runs) = 2
    /\ ld_runs[1].config.last_modified # ld_runs[2].config.last_modified
    /\ [ld_runs[1].config EXCEPT !.last_modified = ld_runs[2].config.last_modified]
          = ld_runs[2].config
    /\ ~ld_runs[2].clear_cache
    /\ ld_runs[2].invoked
    /\ ld_runs[2].dataset = PreparedDataset(2)
    /\ Cardinality(DOMAIN store) = 2

=============================================================================
